---- MODULE Spec2Model ----
(***************************************************************************)
(* Model of the note normaliser (lib/note-formatter.ts, lib/api.ts) and of *)
(* the recommendation explainer (lib/recommendation-engine.ts) of the      *)
(* perfume web app.                                                        *)
(*                                                                         *)
(* A JavaScript string is a sequence of one-character strings; a           *)
(* JavaScript value is a record [t |-> type tag, v |-> payload].           *)
(***************************************************************************)
EXTENDS Integers, Sequences, FiniteSets, TLC

VARIABLES
  npc,        \* note normaliser: "start", "parsed", "reparsed", "formatted", "reformatted"
  noteInput,  \* the value handed to parseNotes / formatNote
  noteOutput, \* what the call returned (or the exception it threw)
  noteSecond, \* what a second pass over noteOutput returned
  sigData,    \* signal explainer: the response item handed to it
  sigIndex,   \* ... and the item's index
  sigReason,  \* ... and the RecommendationReason it returned
  cards,      \* PerfumeDetail: the two candidates compared, each with the reason shown
  legSource,      \* legacy explainer: the source perfume
  legRecommended, \* ... the recommended perfume
  legIndex,       \* ... the index of the call
  legReason,      \* ... the RecommendationReason it returned
  legCompl,       \* ... what areComplementaryProfiles answered, per argument order
  tPayload,   \* transformPerfume: the backend's perfume object
  tResult,    \* ... and the Perfume it returned
  response,   \* recommendations: the body of the backend's answer (data.data)
  respOk,     \* ... whether the answer was a success
  recommendationData,    \* ... what getSimilarPerfumesWithData resolved to
  shown,      \* ... the reasons PerfumeDetail rendered, in list order
  pureTables,   \* pure components: the module-level tables COMPOUND_NOTES, CAPITALIZATION_RULES
  pureArgs,     \* ... the argument objects the callers hold and pass
  pureReturned, \* ... what each caller's call of each function returned
  searchQuery,      \* PerfumeApp: the search box's text
  selectedCategory, \* ... the category chip selected
  selectedPerfume,  \* ... the perfume whose detail view is open, or null
  debouncedQuery,   \* SearchAutocomplete: the debounced copy of the text
  lastRequest,      \* perfumeApi: the latest request sent to the backend
  storage,    \* useFeedback: localStorage['fragrance_feedback'], parsed
  hooks,      \* ... per mounted instance of the hook, its copy of the feedback
  ledger,     \* ... the feedback that every toggle made so far adds up to
  user,           \* AuthProvider: the user signed in, or null
  isLoading,      \* ... its isLoading flag
  error,          \* ... its error message, or null
  tokenStore,     \* auth-api: localStorage's auth_token and refresh_token
  inFlight,       \* ... the operations that await the backend's answer
  now,          \* image URLs: Date.now(), in minutes
  imageCache,   \* ... the Map of ImageUrlCache, per cache key
  fetching,     \* ... per cache key, the signed-URL requests not yet answered
  signedUrl     \* ... what the latest call of getImageSignedUrl resolved to

vars == <<npc, noteInput, noteOutput, noteSecond, sigData, sigIndex, sigReason, cards,
          legSource, legRecommended, legIndex, legReason, legCompl,
          tPayload, tResult, response, respOk, recommendationData, shown,
          pureTables, pureArgs, pureReturned,
          searchQuery, selectedCategory, selectedPerfume, debouncedQuery, lastRequest,
          storage, hooks, ledger,
          user, isLoading, error, tokenStore, inFlight,
          now, imageCache, fetching, signedUrl>>

(***************************************************************************)
(* Bounds                                                                  *)
(***************************************************************************)
MaxNotes == 2     \* longest note array / number of comma segments drawn
MaxIndex == 3     \* largest index handed to an explainer
MaxItems == 5     \* longest recommendation list the backend answers with
MaxTicks == 3     \* how often the clock of the image cache advances
MaxFetching == 1  \* most signed-URL requests awaiting an answer, per cache key

(***************************************************************************)
(* JavaScript strings                                                      *)
(***************************************************************************)
LowerLetters == <<"a", "b", "c", "d", "e", "f", "g", "h", "i", "j", "k", "l", "m", "n", "o", "p", "q", "r", "s", "t", "u", "v", "w", "x", "y", "z">>
UpperLetters == <<"A", "B", "C", "D", "E", "F", "G", "H", "I", "J", "K", "L", "M", "N", "O", "P", "Q", "R", "S", "T", "U", "V", "W", "X", "Y", "Z">>

\* /\s/ and the characters String.prototype.trim removes
IsWhiteSpace(c) == c \in {" ", "\t"}

toLowerCaseChar(c) ==
  IF \E i \in 1..26 : UpperLetters[i] = c
    THEN LowerLetters[CHOOSE i \in 1..26 : UpperLetters[i] = c]
    ELSE c

toUpperCaseChar(c) ==
  IF \E i \in 1..26 : LowerLetters[i] = c
    THEN UpperLetters[CHOOSE i \in 1..26 : LowerLetters[i] = c]
    ELSE c

toLowerCase(s) == [i \in 1..Len(s) |-> toLowerCaseChar(s[i])]
toUpperCase(s) == [i \in 1..Len(s) |-> toUpperCaseChar(s[i])]

RECURSIVE trimStart(_)
trimStart(s) ==
  IF s # <<>> /\ IsWhiteSpace(Head(s)) THEN trimStart(Tail(s)) ELSE s

RECURSIVE trimEnd(_)
trimEnd(s) ==
  IF s # <<>> /\ IsWhiteSpace(s[Len(s)])
    THEN trimEnd(SubSeq(s, 1, Len(s) - 1)) ELSE s

trim(s) == trimEnd(trimStart(s))

\* s.split(c) for a one-character separator: every separator ends a segment,
\* empty segments are kept
RECURSIVE splitChar(_, _, _)
splitChar(s, c, cur) ==
  IF s = <<>> THEN <<cur>>
  ELSE IF Head(s) = c THEN <<cur>> \o splitChar(Tail(s), c, <<>>)
  ELSE splitChar(Tail(s), c, Append(cur, Head(s)))

\* s.split(/\s+/): every maximal run of white space is one separator
RECURSIVE splitWhiteSpace(_, _)
splitWhiteSpace(s, cur) ==
  IF s = <<>> THEN <<cur>>
  ELSE IF IsWhiteSpace(Head(s))
    THEN <<cur>> \o splitWhiteSpace(trimStart(s), <<>>)
  ELSE splitWhiteSpace(Tail(s), Append(cur, Head(s)))

\* parts.join(sep)
RECURSIVE join(_, _)
join(parts, sep) ==
  IF parts = <<>> THEN <<>>
  ELSE IF Len(parts) = 1 THEN parts[1]
  ELSE parts[1] \o sep \o join(Tail(parts), sep)

(***************************************************************************)
(* JavaScript values                                                       *)
(***************************************************************************)
JsString(s)  == [t |-> "string", v |-> s]
JsArray(a)   == [t |-> "array", v |-> a]
JsNumber(d)  == [t |-> "number", v |-> d]     \* d: the decimal digits
JsNull       == [t |-> "null", v |-> <<>>]
JsUndefined  == [t |-> "undefined", v |-> <<>>]
JsObject     == [t |-> "object", v |-> <<>>]  \* a plain object {}
TypeError    == [t |-> "TypeError", v |-> <<>>]  \* the call threw

\* !x
IsFalsy(x) ==
  \/ x.t \in {"null", "undefined"}
  \/ x.t = "string" /\ x.v = <<>>
  \/ x.t = "number" /\ x.v = <<"0">>

(***************************************************************************)
(* JavaScript numbers.  A finite number is an exact fraction n/d in lowest *)
(* terms (binary rounding is not modelled); NaN and undefined are values   *)
(* of their own.                                                           *)
(***************************************************************************)
RECURSIVE Gcd(_, _)
Gcd(a, b) == IF b = 0 THEN a ELSE Gcd(b, a % b)

Abs(a) == IF a < 0 THEN -a ELSE a

Num(n, d) ==
  LET g == Gcd(Abs(n), d) IN [k |-> "number", n |-> n \div g, d |-> d \div g]
NaN       == [k |-> "NaN", n |-> 0, d |-> 1]
Undefined == [k |-> "undefined", n |-> 0, d |-> 1]
NotANumber == [k |-> "string", n |-> 0, d |-> 1]  \* a value whose typeof is not 'number'

\* ToNumber(x) for the values above
ToNumber(x) == IF x.k = "number" THEN x ELSE NaN

\* a < b and a > b: false as soon as one side is NaN
Lt(a, b) ==
  /\ ToNumber(a).k = "number" /\ ToNumber(b).k = "number"
  /\ a.n * b.d < b.n * a.d
Gt(a, b) == Lt(b, a)

\* a / k, k * a and a - b
Div(a, k) == IF ToNumber(a).k = "number" THEN Num(a.n, a.d * k) ELSE NaN
Times(k, a) == IF ToNumber(a).k = "number" THEN Num(k * a.n, a.d) ELSE NaN
Plus(a, b) ==
  IF ToNumber(a).k = "number" /\ ToNumber(b).k = "number"
    THEN Num(a.n * b.d + b.n * a.d, a.d * b.d) ELSE NaN
Minus(a, b) ==
  IF ToNumber(a).k = "number" /\ ToNumber(b).k = "number"
    THEN Num(a.n * b.d - b.n * a.d, a.d * b.d) ELSE NaN

MathMin(a, b) ==
  IF ToNumber(a).k # "number" \/ ToNumber(b).k # "number" THEN NaN
  ELSE IF Lt(b, a) THEN b ELSE a
MathMax(a, b) ==
  IF ToNumber(a).k # "number" \/ ToNumber(b).k # "number" THEN NaN
  ELSE IF Lt(a, b) THEN b ELSE a

\* `${x}` for the values a template is given
TemplateString(x) ==
  IF x.k = "undefined" THEN "undefined"
  ELSE IF x.k = "NaN" THEN "NaN"
  ELSE IF x.d = 1 THEN ToString(x.n)
  ELSE ToString(x.n) \o "/" \o ToString(x.d)

\* x.toFixed(1) of a non-negative number: one decimal, rounded to nearest
toFixed1(x) ==
  LET tenths == (20 * x.n + x.d) \div (2 * x.d)
  IN ToString(tenths \div 10) \o "." \o ToString(tenths % 10)

(***************************************************************************)
(* types/perfume.ts: optional fields and the notes object                  *)
(***************************************************************************)
Optional(present, value) == [present |-> present, v |-> value]
Absent == Optional(FALSE, <<>>)

NotesObject(top, middle, base) ==
  Optional(TRUE, [top |-> top, middle |-> middle, base |-> base])

(***************************************************************************)
(* note-formatter.ts                                                       *)
(***************************************************************************)
COMPOUND_NOTES ==
  {
    <<"i", "s", "o", " ", "e", " ", "s", "u", "p", "e", "r">>, <<"p", "i", "n", "k", " ", "p", "e", "p", "p", "e", "r">>, <<"b", "l", "a", "c", "k", " ", "p", "e", "p", "p", "e", "r">>,
    <<"w", "h", "i", "t", "e", " ", "p", "e", "p", "p", "e", "r">>, <<"g", "r", "e", "e", "n", " ", "p", "e", "p", "p", "e", "r">>, <<"r", "e", "d", " ", "p", "e", "p", "p", "e", "r">>,
    <<"w", "h", "i", "t", "e", " ", "m", "u", "s", "k">>, <<"b", "l", "a", "c", "k", " ", "c", "u", "r", "r", "a", "n", "t">>, <<"r", "e", "d", " ", "b", "e", "r", "r", "i", "e", "s">>,
    <<"b", "l", "a", "c", "k", " ", "t", "e", "a">>, <<"g", "r", "e", "e", "n", " ", "t", "e", "a">>, <<"w", "h", "i", "t", "e", " ", "t", "e", "a">>,
    <<"s", "e", "a", " ", "n", "o", "t", "e", "s">>, <<"w", "o", "o", "d", "y", " ", "n", "o", "t", "e", "s">>, <<"a", "q", "u", "a", "t", "i", "c", " ", "n", "o", "t", "e", "s">>,
    <<"c", "i", "t", "r", "u", "s", " ", "n", "o", "t", "e", "s">>, <<"s", "p", "i", "c", "y", " ", "n", "o", "t", "e", "s">>, <<"f", "l", "o", "r", "a", "l", " ", "n", "o", "t", "e", "s">>,
    <<"o", "r", "i", "e", "n", "t", "a", "l", " ", "n", "o", "t", "e", "s">>, <<"a", "m", "b", "e", "r", "g", "r", "i", "s", " ", "a", "c", "c", "o", "r", "d">>, <<"o", "u", "d", " ", "w", "o", "o", "d">>,
    <<"s", "e", "a", " ", "s", "a", "l", "t">>, <<"t", "o", "n", "k", "a", " ", "b", "e", "a", "n">>, <<"v", "a", "n", "i", "l", "l", "a", " ", "b", "e", "a", "n">>,
    <<"c", "o", "c", "o", "a", " ", "b", "e", "a", "n">>, <<"c", "o", "f", "f", "e", "e", " ", "b", "e", "a", "n">>, <<"a", "m", "b", "r", "o", "x", "a", "n", " ", "s", "u", "p", "e", "r">>,
    <<"h", "e", "d", "i", "o", "n", "e", " ", "h", "c">>, <<"c", "a", "s", "h", "m", "e", "r", "a", "n", " ", "w", "o", "o", "d">>, <<"c", "e", "d", "a", "r", " ", "w", "o", "o", "d">>,
    <<"s", "a", "n", "d", "a", "l", "w", "o", "o", "d", " ", "a", "c", "c", "o", "r", "d">>, <<"p", "a", "t", "c", "h", "o", "u", "l", "i", " ", "l", "e", "a", "f">>, <<"o", "r", "a", "n", "g", "e", " ", "b", "l", "o", "s", "s", "o", "m">>,
    <<"l", "i", "l", "y", " ", "o", "f", " ", "t", "h", "e", " ", "v", "a", "l", "l", "e", "y">>, <<"a", "p", "p", "l", "e", " ", "b", "l", "o", "s", "s", "o", "m">> }

CAPITALIZATION_RULES ==
  << <<<<"y", "l", "a", "n", "g", "-", "y", "l", "a", "n", "g">>, <<"Y", "l", "a", "n", "g", "-", "Y", "l", "a", "n", "g">>>>,
     <<<<"i", "s", "o", " ", "e", " ", "s", "u", "p", "e", "r">>, <<"I", "s", "o", " ", "E", " ", "S", "u", "p", "e", "r">>>>,
     <<<<"h", "e", "d", "i", "o", "n", "e", " ", "h", "c">>,  <<"H", "e", "d", "i", "o", "n", "e", " ", "H", "C">>>>,
     <<<<"a", "m", "b", "r", "o", "x", "a", "n">>,    <<"A", "m", "b", "r", "o", "x", "a", "n">>>>,
     <<<<"c", "a", "s", "h", "m", "e", "r", "a", "n">>,   <<"C", "a", "s", "h", "m", "e", "r", "a", "n">>>>,
     <<<<"t", "o", "n", "k", "a", " ", "b", "e", "a", "n">>,  <<"T", "o", "n", "k", "a", " ", "B", "e", "a", "n">>>>,
     <<<<"o", "u", "d">>,         <<"O", "u", "d">>>>,
     <<<<"p", "a", "t", "c", "h", "o", "u", "l", "i">>,   <<"P", "a", "t", "c", "h", "o", "u", "l", "i">>>> >>

HasRule(key) == \E i \in 1..Len(CAPITALIZATION_RULES) : CAPITALIZATION_RULES[i][1] = key
Rule(key) ==
  CAPITALIZATION_RULES[CHOOSE i \in 1..Len(CAPITALIZATION_RULES) :
                         CAPITALIZATION_RULES[i][1] = key][2]

\* word.charAt(0).toUpperCase() + word.slice(1)
capitalizeWord(word) ==
  IF word = <<>> THEN <<>> ELSE <<toUpperCaseChar(Head(word))>> \o Tail(word)

formatNote_NoLowerCase(note) ==
  IF IsFalsy(note) THEN JsString(<<>>)
  ELSE IF note.t # "string" THEN TypeError
  ELSE LET normalized == trim(note.v)
       IN IF HasRule(normalized) THEN JsString(Rule(normalized))
          ELSE LET words == splitWhiteSpace(normalized, <<>>)
               IN JsString(join([i \in 1..Len(words) |-> capitalizeWord(words[i])], <<" ">>))

formatNote(note) ==
  IF IsFalsy(note) THEN JsString(<<>>)
  ELSE IF note.t # "string" THEN TypeError       \* note.toLowerCase is not a function
  ELSE LET normalized == trim(toLowerCase(note.v))
       IN IF HasRule(normalized) THEN JsString(Rule(normalized))
          ELSE LET words == splitWhiteSpace(normalized, <<>>)
               IN JsString(join([i \in 1..Len(words) |-> capitalizeWord(words[i])], <<" ">>))

\* the for-loop of formatNotes from element i on
RECURSIVE formatNotesLoop(_, _, _, _)
formatNotesLoop(notes, i, seen, formatted) ==
  IF i > Len(notes) THEN JsArray(formatted)
  ELSE IF notes[i].t # "string" THEN TypeError   \* note.toLowerCase() throws
  ELSE LET normalized == trim(toLowerCase(notes[i].v))
       IN IF normalized # <<>> /\ normalized \notin seen
            THEN formatNotesLoop(notes, i + 1, seen \cup {normalized},
                                 Append(formatted, formatNote(notes[i])))
            ELSE formatNotesLoop(notes, i + 1, seen, formatted)

formatNotes(notes) ==
  IF notes.t # "array" THEN JsArray(<<>>)
  ELSE formatNotesLoop(notes.v, 1, {}, <<>>)

\* COMPOUND_NOTES.has(note.toLowerCase().trim())
isCompoundNote(note) ==
  IF note.t # "string" THEN TypeError
  ELSE [t |-> "boolean", v |-> trim(toLowerCase(note.v)) \in COMPOUND_NOTES]

(***************************************************************************)
(* api.ts: transformPerfume.parseNotes                                     *)
(***************************************************************************)
parseNotes_NoEmptyGuard(noteString) ==
  IF noteString.t = "array" THEN formatNotes(noteString)
  ELSE IF noteString.t # "string" THEN TypeError
  ELSE LET segments == splitChar(noteString.v, ",", <<>>)
           trimmed  == [i \in 1..Len(segments) |-> trim(segments[i])]
           rawNotes == SelectSeq(trimmed, LAMBDA n : n # <<>>)
       IN formatNotes(JsArray([i \in 1..Len(rawNotes) |-> JsString(rawNotes[i])]))

parseNotes_SplitOnSpace(noteString) ==
  IF noteString.t = "array" THEN formatNotes(noteString)
  ELSE IF IsFalsy(noteString) THEN JsArray(<<>>)
  ELSE IF noteString.t # "string" THEN TypeError
  ELSE LET blanked  == [i \in 1..Len(noteString.v) |->
                          IF noteString.v[i] = "," THEN " " ELSE noteString.v[i]]
           segments == splitWhiteSpace(blanked, <<>>)
           trimmed  == [i \in 1..Len(segments) |-> trim(segments[i])]
           rawNotes == SelectSeq(trimmed, LAMBDA n : n # <<>>)
       IN formatNotes(JsArray([i \in 1..Len(rawNotes) |-> JsString(rawNotes[i])]))

parseNotes(noteString) ==
  IF noteString.t = "array" THEN formatNotes(noteString)
  ELSE IF IsFalsy(noteString) THEN JsArray(<<>>)
  ELSE IF noteString.t # "string" THEN TypeError \* noteString.split is not a function
  ELSE LET segments == splitChar(noteString.v, ",", <<>>)
           trimmed  == [i \in 1..Len(segments) |-> trim(segments[i])]
           rawNotes == SelectSeq(trimmed, LAMBDA n : n # <<>>)
       IN formatNotes(JsArray([i \in 1..Len(rawNotes) |-> JsString(rawNotes[i])]))

(***************************************************************************)
(* api.ts: transformPerfume.  Of the fields it copies verbatim (id, title, *)
(* name, brand, description, year, imgId, ...) the model keeps brand.      *)
(***************************************************************************)
\* the backend's perfume: null, a Neo4j node (fields under properties) or
\* a plain object
NullPayload == [t |-> "null", props |-> <<>>]
Payload(t, brand, notes, top_notes, middle_notes, base_notes) ==
  [t |-> t,
   props |-> [brand |-> brand, notes |-> notes, top_notes |-> top_notes,
              middle_notes |-> middle_notes, base_notes |-> base_notes]]

\* {} as Perfume
EmptyPerfume ==
  [t |-> "Perfume", brand |-> JsUndefined, notes |-> Absent, top_notes |-> JsUndefined,
   middle_notes |-> JsUndefined, base_notes |-> JsUndefined]

transformPerfume(perfume) ==
  IF perfume.t = "null" THEN EmptyPerfume
  ELSE LET props == perfume.props        \* perfume.properties || perfume
           notes ==                      \* props.notes || { top: ..., ... }
             IF props.notes.present THEN props.notes.v
             ELSE [top |-> parseNotes(props.top_notes),
                   middle |-> parseNotes(props.middle_notes),
                   base |-> parseNotes(props.base_notes)]
       IN IF TypeError \in {notes.top, notes.middle, notes.base} THEN TypeError
          ELSE [t |-> "Perfume", brand |-> props.brand, notes |-> Optional(TRUE, notes),
                top_notes |-> props.top_notes, middle_notes |-> props.middle_notes,
                base_notes |-> props.base_notes]


(***************************************************************************)
(* recommendation-engine.ts: generateRecommendationReasonFromData          *)
(***************************************************************************)
Reason(type, confidence, details, matchingElements) ==
  [type |-> type, confidence |-> confidence, details |-> details,
   matchingElements |-> matchingElements]

NoReason == Reason("none", NaN, "", <<>>)

FamilyLowerCase(family) ==
  CASE family = "FLORAL"   -> "floral"
    [] family = "WOODY"    -> "woody"
    [] family = "ORIENTAL" -> "oriental"
    [] family = "FRESH"    -> "fresh"
    [] family = "FRUITY"   -> "fruity"
    [] family = "GOURMAND" -> "gourmand"
    [] OTHER               -> family

\* Object.entries(olfactiveProfile).reduce(..., { family: '', score: 0 })
\* from entry i on; an entry is <<family, score>>
RECURSIVE reduceDominant(_, _, _)
reduceDominant(entries, i, max) ==
  IF i > Len(entries) THEN max
  ELSE LET family   == entries[i][1]
           score    == entries[i][2]
           numScore == IF score.k = "number" THEN score ELSE Num(0, 1)
       IN reduceDominant(entries, i + 1,
            IF Gt(numScore, max.score)
              THEN [family |-> family, score |-> numScore] ELSE max)

dominantFamily(olfactiveProfile) ==
  IF olfactiveProfile.present
    THEN reduceDominant(olfactiveProfile.entries, 1, [family |-> "", score |-> Num(0, 1)])
    ELSE [family |-> "", score |-> Num(0, 1)]

\* the four return statements
\* a slip: the cap forgotten
similarNotesReason_NoCap(similarityScore, sharedNotes) ==
  Reason("similar_notes",
         Div(similarityScore, 3),
         "Shares " \o TemplateString(sharedNotes)
           \o " fragrance notes with incredible similarity",
         << TemplateString(sharedNotes) \o " shared notes" >>)

similarNotesReason(similarityScore, sharedNotes) ==
  Reason("similar_notes",
         MathMin(Num(95, 100), Div(similarityScore, 3)),
         "Shares " \o TemplateString(sharedNotes)
           \o " fragrance notes with incredible similarity",
         << TemplateString(sharedNotes) \o " shared notes" >>)

similarFamilyReason(similarityScore, dominant) ==
  Reason("similar_family",
         MathMin(Num(9, 10), Div(similarityScore, 3)),
         "Similar " \o FamilyLowerCase(dominant.family) \o " profile with "
           \o TemplateString(dominant.score) \o " matching elements",
         << dominant.family >>)

complementaryReason(similarityScore) ==
  Reason("complementary",
         MathMin(Num(85, 100), Div(similarityScore, 3)),
         "High compatibility score of " \o toFixed1(similarityScore)
           \o " - perfect match!",
         << toFixed1(similarityScore) \o " similarity" >>)

\* a slip: the rank decay added instead of subtracted
popularChoiceReason_SignSlip(index) ==
  Reason("popular_choice",
         MathMax(Num(6, 10), Plus(Num(8, 10), Times(index, Num(1, 10)))),
         "Curated recommendation based on advanced fragrance analysis",
         <<>>)

\* a slip: the legacy explainer's floor of 0.5
popularChoiceReason_LegacyFloor(index) ==
  Reason("popular_choice",
         MathMax(Num(5, 10), Minus(Num(8, 10), Times(index, Num(1, 10)))),
         "Curated recommendation based on advanced fragrance analysis",
         <<>>)

popularChoiceReason(index) ==
  Reason("popular_choice",
         MathMax(Num(6, 10), Minus(Num(8, 10), Times(index, Num(1, 10)))),
         "Curated recommendation based on advanced fragrance analysis",
         <<>>)

\* a slip: the family rule tested before the shared-notes rule
generateRecommendationReasonFromData_FamilyFirst(data, index) ==
  LET similarityScore == data.similarityScore
      sharedNotes     == data.sharedNotes
      dominant        == dominantFamily(data.olfactiveProfile)
  IN IF Gt(dominant.score, Num(4, 1)) THEN similarFamilyReason(similarityScore, dominant)
     ELSE IF Gt(sharedNotes, Num(6, 1)) THEN similarNotesReason(similarityScore, sharedNotes)
     ELSE IF Gt(similarityScore, Num(25, 10)) THEN complementaryReason(similarityScore)
     ELSE popularChoiceReason(index)

\* a slip: >= in place of > in the family rule
generateRecommendationReasonFromData_FamilyAtFour(data, index) ==
  LET similarityScore == data.similarityScore
      sharedNotes     == data.sharedNotes
      dominant        == dominantFamily(data.olfactiveProfile)
  IN IF Gt(sharedNotes, Num(6, 1)) THEN similarNotesReason(similarityScore, sharedNotes)
     ELSE IF ~Lt(dominant.score, Num(4, 1)) THEN similarFamilyReason(similarityScore, dominant)
     ELSE IF Gt(similarityScore, Num(25, 10)) THEN complementaryReason(similarityScore)
     ELSE popularChoiceReason(index)

\* a slip: >= in place of > in the similarity rule
generateRecommendationReasonFromData_ScoreAtThreshold(data, index) ==
  LET similarityScore == data.similarityScore
      sharedNotes     == data.sharedNotes
      dominant        == dominantFamily(data.olfactiveProfile)
  IN IF Gt(sharedNotes, Num(6, 1)) THEN similarNotesReason(similarityScore, sharedNotes)
     ELSE IF Gt(dominant.score, Num(4, 1)) THEN similarFamilyReason(similarityScore, dominant)
     ELSE IF similarityScore.k = "number" /\ ~Lt(similarityScore, Num(25, 10))
       THEN complementaryReason(similarityScore)
     ELSE popularChoiceReason(index)

generateRecommendationReasonFromData(data, index) ==
  LET similarityScore == data.similarityScore
      sharedNotes     == data.sharedNotes
      dominant        == dominantFamily(data.olfactiveProfile)
  IN IF Gt(sharedNotes, Num(6, 1)) THEN similarNotesReason(similarityScore, sharedNotes)
     ELSE IF Gt(dominant.score, Num(4, 1)) THEN similarFamilyReason(similarityScore, dominant)
     ELSE IF Gt(similarityScore, Num(25, 10)) THEN complementaryReason(similarityScore)
     ELSE popularChoiceReason(index)

(***************************************************************************)
(* recommendation-engine.ts: the legacy pairwise explainer                 *)
(***************************************************************************)
\* a Perfume (types/perfume.ts): brand, the optional notes object and the
\* optional comma-joined note strings

Perfume(brand, notes, top_notes, middle_notes, base_notes) ==
  [brand |-> brand, notes |-> notes, top_notes |-> top_notes,
   middle_notes |-> middle_notes, base_notes |-> base_notes]

\* s.startsWith(p), s.endsWith(p), s.includes(p)
StartsWith(s, p) == Len(p) <= Len(s) /\ SubSeq(s, 1, Len(p)) = p
EndsWith(s, p) == Len(p) <= Len(s) /\ SubSeq(s, Len(s) - Len(p) + 1, Len(s)) = p
includes(s, p) == \E i \in 0..(Len(s) - Len(p)) : SubSeq(s, i + 1, i + Len(p)) = p

\* s.replace(/\s+/g, ' ')
RECURSIVE collapseWhiteSpace(_)
collapseWhiteSpace(s) ==
  IF s = <<>> THEN <<>>
  ELSE IF IsWhiteSpace(Head(s)) THEN <<" ">> \o collapseWhiteSpace(trimStart(s))
  ELSE <<Head(s)>> \o collapseWhiteSpace(Tail(s))

ColorPrefixes == << <<"w", "h", "i", "t", "e">>, <<"b", "l", "a", "c", "k">>, <<"p", "i", "n", "k">>, <<"r", "e", "d">>, <<"b", "l", "u", "e">>, <<"g", "r", "e", "e", "n">>, <<"y", "e", "l", "l", "o", "w">> >>
NoteSuffixes  == << <<"o", "i", "l">>, <<"e", "x", "t", "r", "a", "c", "t">>, <<"a", "b", "s", "o", "l", "u", "t", "e">> >>

\* s.replace(/^(white|black|pink|red|blue|green|yellow)\s+/, '')
removeColorPrefix(s) ==
  LET hits == { i \in 1..Len(ColorPrefixes) :
                  /\ StartsWith(s, ColorPrefixes[i])
                  /\ Len(s) > Len(ColorPrefixes[i])
                  /\ IsWhiteSpace(s[Len(ColorPrefixes[i]) + 1]) }
  IN IF hits = {} THEN s
     ELSE LET i == CHOOSE h \in hits : \A g \in hits : h <= g
          IN trimStart(SubSeq(s, Len(ColorPrefixes[i]) + 1, Len(s)))

\* s.replace(/\s+(oil|extract|absolute)$/, '')
removeSuffix(s) ==
  LET hits == { i \in 1..Len(NoteSuffixes) :
                  /\ EndsWith(s, NoteSuffixes[i])
                  /\ Len(s) > Len(NoteSuffixes[i])
                  /\ IsWhiteSpace(s[Len(s) - Len(NoteSuffixes[i])]) }
  IN IF hits = {} THEN s
     ELSE LET i == CHOOSE h \in hits : \A g \in hits : h <= g
          IN trimEnd(SubSeq(s, 1, Len(s) - Len(NoteSuffixes[i])))

normalizeNote(note) ==
  removeSuffix(removeColorPrefix(trim(collapseWhiteSpace(toLowerCase(note)))))

\* notes.push(...field.split(',').map(n => n.trim())) when the field is truthy
splitNotes(field) ==
  IF field.present /\ field.v # <<>>
    THEN LET parts == splitChar(field.v, ",", <<>>)
         IN [i \in 1..Len(parts) |-> trim(parts[i])]
    ELSE <<>>

extractAllNotes(perfume) ==
  LET structured ==
        IF perfume.notes.present
          THEN perfume.notes.v.top \o perfume.notes.v.middle \o perfume.notes.v.base
          ELSE <<>>
      notes == structured \o splitNotes(perfume.top_notes)
                 \o splitNotes(perfume.middle_notes) \o splitNotes(perfume.base_notes)
  IN SelectSeq(notes, LAMBDA note : Len(note) > 0)

complementaryPairs ==
  << <<<<"c", "i", "t", "r", "u", "s">>, <<"w", "o", "o", "d", "y">>>>, <<<<"f", "l", "o", "r", "a", "l">>, <<"s", "p", "i", "c", "y">>>>, <<<<"f", "r", "e", "s", "h">>, <<"w", "a", "r", "m">>>>,
     <<<<"l", "i", "g", "h", "t">>, <<"d", "e", "e", "p">>>>, <<<<"s", "w", "e", "e", "t">>, <<"d", "r", "y">>>>, <<<<"a", "q", "u", "a", "t", "i", "c">>, <<"o", "r", "i", "e", "n", "t", "a", "l">>>> >>

\* notes.some(note => note.toLowerCase().includes(family))
someIncludes(notes, family) ==
  \E i \in 1..Len(notes) : includes(toLowerCase(notes[i]), family)

areComplementaryProfiles(perfume1, perfume2) ==
  LET notes1 == extractAllNotes(perfume1)
      notes2 == extractAllNotes(perfume2)
  IN \E p \in 1..Len(complementaryPairs) :
       /\ someIncludes(notes1, complementaryPairs[p][1])
       /\ someIncludes(notes2, complementaryPairs[p][2])

\* sourceNotes.filter(note => recommendedNotes.some(rNote => ...))
commonNotes(sourcePerfume, recommendedPerfume) ==
  LET sourceNotes      == extractAllNotes(sourcePerfume)
      recommendedNotes == extractAllNotes(recommendedPerfume)
  IN SelectSeq(sourceNotes, LAMBDA note :
       \E i \in 1..Len(recommendedNotes) :
         normalizeNote(note) = normalizeNote(recommendedNotes[i]))

\* `${n}` for a non-negative integer, as characters
Digit == <<"0", "1", "2", "3", "4", "5", "6", "7", "8", "9">>
RECURSIVE Digits(_)
Digits(n) == IF n < 10 THEN <<Digit[n + 1]>> ELSE Digits(n \div 10) \o <<Digit[(n % 10) + 1]>>

\* the reasons array before the final reduce
legacyReasons(sourcePerfume, recommendedPerfume, index) ==
  LET common == commonNotes(sourcePerfume, recommendedPerfume)
      sameBrand ==
        IF toLowerCase(sourcePerfume.brand) = toLowerCase(recommendedPerfume.brand)
          THEN << Reason("same_brand", Num(85, 100),
                         <<"B", "o", "t", "h", " ", "p", "e", "r", "f", "u", "m", "e", "s", " ", "a", "r", "e", " ", "f", "r", "o", "m", " ">> \o sourcePerfume.brand
                           \o <<",", " ", "k", "n", "o", "w", "n", " ", "f", "o", "r", " ", "t", "h", "e", "i", "r", " ", "c", "o", "n", "s", "i", "s", "t", "e", "n", "t", " ", "q", "u", "a", "l", "i", "t", "y", " ", "a", "n", "d", " ", "s", "t", "y", "l", "e", ".">>,
                         << sourcePerfume.brand >>) >>
          ELSE <<>>
      similarNotes ==
        IF Len(common) > 0
          THEN << Reason("similar_notes",
                         MathMin(Num(95, 100),
                                 Plus(Num(6, 10), Times(Len(common), Num(1, 10)))),
                         <<"S", "h", "a", "r", "e", "s", " ">> \o Digits(Len(common)) \o <<" ", "k", "e", "y", " ", "f", "r", "a", "g", "r", "a", "n", "c", "e", " ", "n", "o", "t", "e">>
                           \o (IF Len(common) > 1 THEN <<"s">> ELSE <<>>) \o <<":", " ">>
                           \o join(SubSeq(common, 1, IF Len(common) < 3 THEN Len(common) ELSE 3), <<",", " ">>)
                           \o <<".">>,
                         common) >>
          ELSE <<>>
      complementary ==
        IF areComplementaryProfiles(sourcePerfume, recommendedPerfume)
          THEN << Reason("complementary", Num(75, 100),
                         <<"T", "h", "i", "s", " ", "f", "r", "a", "g", "r", "a", "n", "c", "e", " ", "c", "o", "m", "p", "l", "e", "m", "e", "n", "t", "s", " ", "y", "o", "u", "r", " ", "c", "h", "o", "i", "c", "e", " ", "w", "i", "t", "h", " ", "c", "o", "n", "t", "r", "a", "s", "t", "i", "n", "g", " ", "y", "e", "t", " ", "h", "a", "r", "m", "o", "n", "i", "o", "u", "s", " ", "n", "o", "t", "e", "s", ".">>,
                         <<>>) >>
          ELSE <<>>
      reasons == sameBrand \o similarNotes \o complementary
  IN IF Len(reasons) = 0
       THEN << Reason("popular_choice",
                      MathMax(Num(5, 10), Minus(Num(8, 10), Times(index, Num(1, 10)))),
                      <<"H", "i", "g", "h", "l", "y", " ", "r", "a", "t", "e", "d", " ", "f", "r", "a", "g", "r", "a", "n", "c", "e", " ", "t", "h", "a", "t", " ", "p", "e", "r", "f", "u", "m", "e", " ", "e", "n", "t", "h", "u", "s", "i", "a", "s", "t", "s", " ", "o", "f", "t", "e", "n", " ", "e", "n", "j", "o", "y", " ", "a", "l", "o", "n", "g", "s", "i", "d", "e", " ", "s", "i", "m", "i", "l", "a", "r", " ", "s", "c", "e", "n", "t", "s", ".">>,
                      <<>>) >>
       ELSE reasons

\* reasons.reduce((best, current) => current.confidence > best.confidence ? current : best)
RECURSIVE reduceBest(_, _, _)
reduceBest(reasons, i, best) ==
  IF i > Len(reasons) THEN best
  ELSE reduceBest(reasons, i + 1,
         IF Gt(reasons[i].confidence, best.confidence) THEN reasons[i] ELSE best)

\* a slip: the fallback is pushed whether or not another reason matched
generateRecommendationReason_AlwaysFallback(sourcePerfume, recommendedPerfume, index) ==
  LET reasons == legacyReasons(sourcePerfume, recommendedPerfume, index)
                   \o << Reason("popular_choice",
                                 MathMax(Num(5, 10), Minus(Num(8, 10), Times(index, Num(1, 10)))),
                                 <<"H", "i", "g", "h", "l", "y", " ", "r", "a", "t", "e", "d", " ", "f", "r", "a", "g", "r", "a", "n", "c", "e", " ", "t", "h", "a", "t", " ", "p", "e", "r", "f", "u", "m", "e", " ", "e", "n", "t", "h", "u", "s", "i", "a", "s", "t", "s", " ", "o", "f", "t", "e", "n", " ", "e", "n", "j", "o", "y", " ", "a", "l", "o", "n", "g", "s", "i", "d", "e", " ", "s", "i", "m", "i", "l", "a", "r", " ", "s", "c", "e", "n", "t", "s", ".">>,
                                 <<>>) >>
  IN reduceBest(reasons, 2, reasons[1])

\* a slip: the first reason that matched is returned
generateRecommendationReason_FirstMatch(sourcePerfume, recommendedPerfume, index) ==
  legacyReasons(sourcePerfume, recommendedPerfume, index)[1]

generateRecommendationReason(sourcePerfume, recommendedPerfume, index) ==
  LET reasons == legacyReasons(sourcePerfume, recommendedPerfume, index)
  IN reduceBest(reasons, 2, reasons[1])

(***************************************************************************)
(* api.ts: getSimilarPerfumesWithData, and PerfumeDetail's rendering of    *)
(* its result                                                              *)
(***************************************************************************)
SliceLimit == 4

\* an item of data.data: item.perfume (absent, or the perfume payload with
\* the fields item.perfume.similarityScore, .sharedNotes, .olfactiveProfile),
\* the item's own similarityScore, sharedNotes, olfactiveProfile, and
\* item.notes
Signals(similarityScore, sharedNotes, olfactiveProfile) ==
  [similarityScore |-> similarityScore, sharedNotes |-> sharedNotes,
   olfactiveProfile |-> olfactiveProfile]
AbsentProfile == [present |-> FALSE, entries |-> <<>>]
NoSignals == Signals(Undefined, Undefined, AbsentProfile)

Item(hasPerfume, payload, inPerfume, atTop) ==
  [perfume |-> [present |-> hasPerfume, payload |-> payload,
                similarityScore |-> inPerfume.similarityScore,
                sharedNotes |-> inPerfume.sharedNotes,
                olfactiveProfile |-> inPerfume.olfactiveProfile],
   similarityScore |-> atTop.similarityScore,
   sharedNotes |-> atTop.sharedNotes,
   olfactiveProfile |-> atTop.olfactiveProfile,
   notes |-> JsUndefined]

\* a slip: the signals read from the item itself
recommendationResult_TopLevel(item) ==
  [perfume |-> transformPerfume(IF item.perfume.present THEN item.perfume.payload
                                ELSE NullPayload),
   similarityScore  |-> item.similarityScore,
   sharedNotes      |-> item.sharedNotes,
   olfactiveProfile |-> item.olfactiveProfile,
   notes |-> item.notes]

\* the object the map callback builds for one item
recommendationResult(item) ==
  [perfume |-> transformPerfume(IF item.perfume.present THEN item.perfume.payload
                                ELSE NullPayload),
   similarityScore  |-> item.perfume.similarityScore,   \* item.perfume?.similarityScore
   sharedNotes      |-> item.perfume.sharedNotes,
   olfactiveProfile |-> item.perfume.olfactiveProfile,
   notes |-> item.notes]

\* array.slice(0, n)
slice0(array, n) == SubSeq(array, 1, IF Len(array) < n THEN Len(array) ELSE n)

\* ok: response.ok and data.status === 'success' and data.data; every
\* failure, a throw inside the map included, ends in the catch: return []
getSimilarPerfumesWithData(ok, data) ==
  IF ~ok THEN <<>>
  ELSE LET results == [i \in 1..Len(data) |-> recommendationResult(data[i])]
       IN IF \E i \in 1..Len(results) : results[i].perfume = TypeError THEN <<>>
          ELSE slice0(results, SliceLimit)

\* recommendationData.slice(0, 4).map((recData, index) => reason)
renderReasons(recommendations) ==
  LET first == slice0(recommendations, SliceLimit)
  IN [i \in 1..Len(first) |-> generateRecommendationReasonFromData(first[i], i - 1)]

(***************************************************************************)
(* lib/validation.ts                                                       *)
(***************************************************************************)
MaxQueryLength == 100

\* the grave accent, written by its code point (the one character a TLA+
\* string cannot hold)
GraveAccent == "U+0060"

\* the characters of the class the sanitizer removes: angle brackets,
\* braces, square brackets, backslash, slash, equals sign, semicolon, grave
\* accent, double quote
FilteredCharacters ==
  {"<", ">", "{", "}", "[", "]", "\\", "/", "=", ";", GraveAccent, "\""}

\* input.substring(0, 100), the filtered characters removed, trimmed, runs
\* of white space collapsed
validateSearchInput(input) ==
  IF IsFalsy(input) \/ input.t # "string" THEN <<>>
  ELSE LET cut == SubSeq(input.v, 1, IF Len(input.v) < MaxQueryLength
                                       THEN Len(input.v) ELSE MaxQueryLength)
           sanitized == SelectSeq(cut, LAMBDA c : c \notin FilteredCharacters)
       IN collapseWhiteSpace(trim(sanitized))

validCategories ==
  << <<"a", "l", "l">>, <<"f", "l", "o", "r", "a", "l">>, <<"w", "o", "o", "d", "y">>, <<"f", "r", "e", "s", "h">>, <<"o", "r", "i", "e", "n", "t", "a", "l">>, <<"f", "r", "u", "i", "t", "y">>, <<"g", "o", "u", "r", "m", "a", "n", "d">> >>

\* validCategories.includes(category.toLowerCase())
validateCategory(category) ==
  \E i \in 1..Len(validCategories) : validCategories[i] = toLowerCase(category)

(***************************************************************************)
(* App.tsx: the requests of the perfumes query                             *)
(***************************************************************************)
Request(endpoint, argument) == [endpoint |-> endpoint, argument |-> argument]

\* queryFn of useQuery(['perfumes', searchQuery, selectedCategory])
perfumesQueryFn(query, category) ==
  IF query # <<>> THEN Request("searchPerfumes", query)
  ELSE IF category # <<>> /\ category # <<"a", "l", "l">>
    THEN Request("getCategoryRecommendations", category)
  ELSE Request("getFeaturedPerfumes", <<>>)

(***************************************************************************)
(* hooks/useFeedback.ts.  The timestamp of FeedbackData is left out: no    *)
(* code reads it.  JSON.stringify and JSON.parse keep two arrays of        *)
(* strings as they are.                                                    *)
(***************************************************************************)
FeedbackData(loved, rejected) == [loved |-> loved, rejected |-> rejected]
EmptyFeedback == FeedbackData(<<>>, <<>>)

\* list.includes(id) and list.filter(x => x !== id)
listIncludes(list, id) == \E i \in 1..Len(list) : list[i] = id
listWithout(list, id) == SelectSeq(list, LAMBDA x : x # id)

\* stored: the item of localStorage, present or not
loadFeedback(stored) ==
  IF stored.present THEN stored.v ELSE EmptyFeedback

saveFeedback(data) == Optional(TRUE, data)

getFeedbackStatus(feedback, perfumeId) ==
  IF listIncludes(feedback.loved, perfumeId) THEN "loved"
  ELSE IF listIncludes(feedback.rejected, perfumeId) THEN "rejected"
  ELSE "null"

toggleLove_KeepRejected(prev, perfumeId) ==
  FeedbackData(IF listIncludes(prev.loved, perfumeId)
                 THEN listWithout(prev.loved, perfumeId)
                 ELSE Append(prev.loved, perfumeId),
               prev.rejected)

toggleLove(prev, perfumeId) ==
  FeedbackData(IF listIncludes(prev.loved, perfumeId)
                 THEN listWithout(prev.loved, perfumeId)
                 ELSE Append(prev.loved, perfumeId),
               listWithout(prev.rejected, perfumeId))

toggleReject(prev, perfumeId) ==
  FeedbackData(listWithout(prev.loved, perfumeId),
               IF listIncludes(prev.rejected, perfumeId)
                 THEN listWithout(prev.rejected, perfumeId)
                 ELSE Append(prev.rejected, perfumeId))

clearFeedback == EmptyFeedback

(***************************************************************************)
(* App.tsx: the grid of the list view                                      *)
(***************************************************************************)
\* data.perfumes.filter(perfume => !feedback.rejected.includes(perfume.id))
sortedPerfumes(perfumes, feedback) ==
  SelectSeq(perfumes, LAMBDA id : ~listIncludes(feedback.rejected, id))

(***************************************************************************)
(* lib/auth-api.ts: the tokens in localStorage                             *)
(***************************************************************************)
AuthTokens(accessToken, refreshToken) ==
  [accessToken |-> accessToken, refreshToken |-> refreshToken]

\* localStorage without auth_token and refresh_token
NoTokens == [auth_token |-> "null", refresh_token |-> "null"]

\* setItem(TOKEN_KEY, ...); if (tokens.refreshToken) setItem(REFRESH_TOKEN_KEY, ...)
storeTokens(store, tokens) ==
  [auth_token |-> tokens.accessToken,
   refresh_token |-> IF tokens.refreshToken # "null" THEN tokens.refreshToken
                     ELSE store.refresh_token]

getAccessToken(store) == store.auth_token

clearTokens == NoTokens

(***************************************************************************)
(* lib/api.ts: ImageUrlCache and the key of getImageSignedUrl.  Time is in *)
(* minutes.  A signed URL is named by the key it was signed for and the    *)
(* time the backend issued it.                                             *)
(***************************************************************************)
CACHE_DURATION == 50

Url(key, issued) == [key |-> key, issued |-> issued]
NoUrl == Url("", 0)

Entry(url, expires) == [present |-> TRUE, url |-> url, expires |-> expires]
NoEntry == [present |-> FALSE, url |-> NoUrl, expires |-> 0]

\* imageMetadata?.extension || '.jpg', appended to imgId
cacheKey(imgId, extension) ==
  imgId \o (IF extension # "" THEN extension ELSE ".jpg")

\* ImageUrlCache.get: the URL returned (hit) and the Map it leaves
cacheGet_AtExpiry(cache, key, time) ==
  IF cache[key].present /\ time <= cache[key].expires
    THEN [hit |-> TRUE, url |-> cache[key].url, cache |-> cache]
    ELSE [hit |-> FALSE, url |-> NoUrl, cache |-> [cache EXCEPT ![key] = NoEntry]]

cacheGet(cache, key, time) ==
  IF cache[key].present /\ time < cache[key].expires
    THEN [hit |-> TRUE, url |-> cache[key].url, cache |-> cache]
    ELSE [hit |-> FALSE, url |-> NoUrl, cache |-> [cache EXCEPT ![key] = NoEntry]]

\* ImageUrlCache.set
cacheSet(cache, key, url, time) ==
  [cache EXCEPT ![key] = Entry(url, time + CACHE_DURATION)]

(***************************************************************************)
(* Inputs of the note normaliser                                           *)
(***************************************************************************)
\* note names as the backend may spell them: words of a phrase in lower or
\* upper case, separated by one blank, two blanks or a tab, padded or not
Phrases ==
  { <<<<"o", "u", "d">>>>, <<<<"h", "e", "d", "i", "o", "n", "e">>, <<"h", "c">>>>, <<<<"i", "s", "o">>, <<"e">>, <<"s", "u", "p", "e", "r">>>>,
    <<<<"a", "m", "b", "e", "r">>, <<"m", "u", "s", "k">>>> }
Separators == { <<" ">>, <<" ", " ">>, <<"\t">> }
Paddings   == { <<>>, <<" ">> }

Spell(phrase, upper, sep, pad) ==
  pad \o join([i \in 1..Len(phrase) |->
                 IF upper THEN toUpperCase(phrase[i]) ELSE phrase[i]], sep) \o pad

RawNotes ==
  { Spell(p, u, s, d) : p \in Phrases, u \in BOOLEAN, s \in Separators, d \in Paddings }

\* what an element of a notes array may be
ArrayElements ==
  { JsString(n) : n \in RawNotes \cup {<<>>, <<" ">>} } \cup { JsNull, JsNumber(<<"7">>) }

\* the segments of a comma-joined notes string
Segments == RawNotes \cup {<<>>}

SeqsUpTo(S, n) == UNION { [1..k -> S] : k \in 0..n }

NoteArrays  == { JsArray(a) : a \in SeqsUpTo(ArrayElements, MaxNotes) }
NoteStrings == { JsString(join(a, <<",">>)) : a \in SeqsUpTo(Segments, MaxNotes) }
\* the notes strings of the backend's sample perfumes
SampleStrings ==
  { JsString(<<"P", "i", "n", "k", " ", "P", "e", "p", "p", "e", "r", ",", " ", "B", "e", "r", "g", "a", "m", "o", "t">>), JsString(<<"p", "i", "n", "k", " ", "p", "e", "p", "p", "e", "r", ",", ",", "b", "e", "r", "g", "a", "m", "o", "t", " ", ",", " ">>) }
NotScalars  == { JsNull, JsUndefined, JsNumber(<<"0">>), JsNumber(<<"4", "2">>), JsObject }

ParseInputs      == NoteArrays \cup NoteStrings \cup SampleStrings \cup NotScalars
FormatNoteInputs == { JsString(n) : n \in RawNotes \cup {<<>>} } \cup NotScalars

(***************************************************************************)
(* Inputs of the signal explainer                                          *)
(***************************************************************************)
SimilarityScores ==
  { Undefined, Num(0, 1), Num(1, 1), Num(25, 10), Num(26, 10), Num(27, 10),
    Num(285, 100), Num(3, 1), Num(4, 1) }
SharedNoteCounts == { Undefined, Num(0, 1), Num(6, 1), Num(7, 1), Num(8, 1) }
Families == { "FLORAL", "WOODY" }
FamilyScores == { NotANumber, Num(4, 1), Num(5, 1), Num(10, 1) }

\* an olfactiveProfile object: its entries in enumeration order
ProfileEntries ==
  { e \in SeqsUpTo(Families \X FamilyScores, 2) :
      \A i, j \in 1..Len(e) : i # j => e[i][1] # e[j][1] }
OlfactiveProfiles ==
  { [present |-> TRUE, entries |-> e] : e \in ProfileEntries }
    \cup { [present |-> FALSE, entries |-> <<>>] }

SignalData ==
  [similarityScore : SimilarityScores, sharedNotes : SharedNoteCounts,
   olfactiveProfile : OlfactiveProfiles]

NoData ==
  [similarityScore |-> Undefined, sharedNotes |-> Undefined,
   olfactiveProfile |-> [present |-> FALSE, entries |-> <<>>]]

(***************************************************************************)
(* Inputs of the legacy explainer                                          *)
(***************************************************************************)
Brands == { <<"D", "i", "o", "r">>, <<"D", "I", "O", "R">>, <<"C", "h", "a", "n", "e", "l">> }

\* the notes object of a perfume, absent or as transformPerfume builds it
NotesObjects ==
  { Absent,
    NotesObject(<<<<"R", "o", "s", "e">>>>, <<<<"O", "u", "d">>>>, <<<<"M", "u", "s", "k">>>>),
    NotesObject(<<<<"R", "o", "s", "e">>, <<"W", "h", "i", "t", "e", " ", "R", "o", "s", "e">>>>, <<>>, <<<<"R", "o", "s", "e", " ", "O", "i", "l">>>>),
    NotesObject(<<<<"C", "i", "t", "r", "u", "s", " ", "N", "o", "t", "e", "s">>>>, <<>>, <<<<"M", "u", "s", "k">>>>),
    NotesObject(<<<<"W", "o", "o", "d", "y", " ", "N", "o", "t", "e", "s">>>>, <<>>, <<>>) }

\* the top_notes, middle_notes and base_notes strings of a perfume
NoteFields ==
  { <<Absent, Absent, Absent>>,
    <<Optional(TRUE, <<"r", "o", "s", "e", ",", " ", "o", "u", "d">>), Absent, Absent>>,
    <<Optional(TRUE, <<"r", "o", "s", "e", ",", " ", "o", "u", "d">>), Optional(TRUE, <<"m", "u", "s", "k">>), Optional(TRUE, <<"a", "m", "b", "e", "r">>)>>,
    <<Optional(TRUE, <<"w", "o", "o", "d", "y", " ", "n", "o", "t", "e", "s">>), Optional(TRUE, <<>>), Absent>>,
    <<Optional(TRUE, <<"f", "r", "e", "s", "h", " ", "c", "i", "t", "r", "u", "s", ",", "r", "o", "s", "e">>), Absent, Absent>> }

Perfumes ==
  { Perfume(b, n, f[1], f[2], f[3]) : b \in Brands, n \in NotesObjects, f \in NoteFields }

(***************************************************************************)
(* Inputs of transformPerfume                                              *)
(***************************************************************************)
PayloadNotes == { <<"r", "o", "s", "e">>, <<" ", "R", "o", "s", "e", " ">>, <<"h", "e", "d", "i", "o", "n", "e", " ", "h", "c">> }
PayloadLists ==
  { JsArray([i \in 1..Len(a) |-> JsString(a[i])]) : a \in SeqsUpTo(PayloadNotes, MaxNotes) }

\* the pre-split notes object, when the payload carries one
PayloadNoteObjects ==
  { Absent } \cup
  { NotesObject(top, middle, JsArray(<<>>)) :
      top \in PayloadLists, middle \in { JsArray(<<>>), JsArray(<<JsString(<<"o", "u", "d">>)>>) } }

PayloadTopNotes ==
  { JsUndefined, JsString(<<>>), JsString(<<"r", "o", "s", "e", ",", " ", "R", "o", "s", "e">>), JsString(<<"p", "i", "n", "k", " ", "p", "e", "p", "p", "e", "r", ",", "o", "u", "d">>) }
PayloadMiddleNotes == { JsUndefined, JsString(<<"m", "u", "s", "k">>) }

Payloads ==
  { Payload(t, JsString(<<"D", "i", "o", "r">>), n, top, middle, JsUndefined) :
      t \in {"node", "plain"}, n \in PayloadNoteObjects,
      top \in PayloadTopNotes, middle \in PayloadMiddleNotes }
    \cup { NullPayload }

(***************************************************************************)
(* Inputs of the recommendation pipeline                                   *)
(***************************************************************************)
ItemPayload ==
  Payload("plain", JsString(<<"D", "i", "o", "r">>), Absent, JsString(<<"r", "o", "s", "e", ",", " ", "o", "u", "d">>), JsUndefined, JsUndefined)

StrongNotes  == Signals(Num(1, 1), Num(8, 1),
                        [present |-> TRUE, entries |-> << <<"WOODY", Num(10, 1)>> >>])
StrongFamily == Signals(Num(3, 1), Num(0, 1),
                        [present |-> TRUE, entries |-> << <<"FLORAL", Num(5, 1)>> >>])

\* signals next to perfume, inside perfume, in both places, nowhere; and an
\* item without perfume
Items ==
  { Item(TRUE, ItemPayload, NoSignals, StrongNotes),
    Item(TRUE, ItemPayload, StrongNotes, NoSignals),
    Item(TRUE, ItemPayload, StrongFamily, StrongNotes),
    Item(TRUE, ItemPayload, NoSignals, NoSignals),
    Item(FALSE, NullPayload, NoSignals, StrongFamily) }

Responses == SeqsUpTo(Items, MaxItems)

(***************************************************************************)
(* Inputs of the callers of the pure components                            *)
(***************************************************************************)
Callers == {"PerfumeDetail", "PerfumeCard"}
PureFunctions ==
  {"formatNote", "formatNotes", "isCompoundNote",
   "generateRecommendationReasonFromData", "generateRecommendationReason"}

CallerNotes == { <<"P", "i", "n", "k", " ", "P", "e", "p", "p", "e", "r">>, <<" ", "O", "U", "D", " ">>, <<"a", "m", "b", "e", "r", " ", " ", "m", "u", "s", "k">> }
CallerData ==
  { [similarityScore |-> Num(3, 1), sharedNotes |-> Num(7, 1), olfactiveProfile |-> AbsentProfile],
    [similarityScore |-> Num(2, 1), sharedNotes |-> Num(0, 1), olfactiveProfile |-> AbsentProfile] }
CallerPairs ==
  { << Perfume(<<"D", "i", "o", "r">>, NotesObject(<<<<"R", "o", "s", "e">>>>, <<<<"O", "u", "d">>>>, <<<<"M", "u", "s", "k">>>>), Absent, Absent, Absent),
       Perfume(<<"C", "h", "a", "n", "e", "l">>, NotesObject(<<<<"R", "o", "s", "e">>, <<"W", "h", "i", "t", "e", " ", "R", "o", "s", "e">>>>, <<>>, <<<<"R", "o", "s", "e", " ", "O", "i", "l">>>>), Absent, Absent, Absent) >>,
    << Perfume(<<"D", "i", "o", "r">>, NotesObject(<<<<"C", "i", "t", "r", "u", "s", " ", "N", "o", "t", "e", "s">>>>, <<>>, <<<<"M", "u", "s", "k">>>>), Absent, Absent, Absent),
       Perfume(<<"C", "h", "a", "n", "e", "l">>, NotesObject(<<<<"W", "o", "o", "d", "y", " ", "N", "o", "t", "e", "s">>>>, <<>>, <<>>), Absent, Absent, Absent) >> }

\* the objects the callers share and pass as arguments
Arguments ==
  { [note |-> JsString(n),
     notes |-> JsArray(<<JsString(n), JsString(<<"r", "o", "s", "e">>), JsString(toUpperCase(n))>>),
     data |-> d, index |-> i, sourcePerfume |-> p[1], recommendedPerfume |-> p[2]] :
      n \in CallerNotes, d \in CallerData, i \in 0..1, p \in CallerPairs }

(***************************************************************************)
(* Inputs of the search page                                               *)
(***************************************************************************)
PerfumeIds == {"p1", "p2", "p3"}

\* what the user types or pastes into the search box
TypedTexts ==
  { <<>>, <<"o">>, <<"o", "u", "d">>, <<" ", "n", "o", " ", " ", "5", " ">>, <<"<", "s", "c", "r", "i", "p", "t", ">">>, <<"a", "=", "1", ";">>,
    [i \in 1..(MaxQueryLength + 1) |-> "a"] }

\* what handleCategoryChange is called with: the ids of the chips, and
\* other strings
CategoryInputs ==
  { validCategories[i] : i \in 1..Len(validCategories) }
    \cup { <<"F", "L", "O", "R", "A", "L">>, <<"W", "o", "o", "d", "y">>, <<"a", "q", "u", "a", "t", "i", "c">>, <<>> }

(***************************************************************************)
(* Inputs of the feedback hook                                             *)
(***************************************************************************)
\* the components that call useFeedback; a RecommendationCard is named by
\* the id of its perfume
Instances == {"PerfumeApp", "PreferenceInsights"} \cup PerfumeIds

\* the perfume ids a caller of the hook may pass
HookIds == PerfumeIds \cup {"p4"}

\* data.perfumes of the perfumes query
ListedPerfumes == <<"p1", "p2", "p3">>

\* what an earlier visit left in localStorage
InitialStorage ==
  { Optional(FALSE, EmptyFeedback),
    Optional(TRUE, FeedbackData(<<>>, <<"p3">>)) }

(***************************************************************************)
(* Inputs of the AuthProvider                                              *)
(***************************************************************************)
AuthOperations == {"initAuth", "login", "register", "logout"}

\* the accounts of the backend
Users == {"ana", "ben"}

\* what the backend answers a login or registration of an account with
IssuedTokens(u) ==
  { AuthTokens("access:" \o u, "refresh:" \o u), AuthTokens("access:" \o u, "null") }

\* what an earlier visit left in localStorage
StoredTokens ==
  { NoTokens } \cup
  { [auth_token |-> "access:" \o u, refresh_token |-> "refresh:" \o u] : u \in Users }

(***************************************************************************)
(* Inputs of the image URL cache                                           *)
(***************************************************************************)
TickMinutes == 25

\* the (imgId, extension) pairs PerfumeImage asks a URL for; "" is a
\* perfume without image metadata
ImageCalls == { <<"img7", "">>, <<"img7", ".png">> }
CacheKeys == { cacheKey(c[1], c[2]) : c \in ImageCalls }

\* how a signed-URL request ends: answered with a URL, answered with an
\* HTTP error, answered without status 'success', aborted by the timeout
Outcomes == {"success", "not ok", "no success", "timeout"}

(***************************************************************************)
(* The state of each component, and the components a specification leaves  *)
(* out                                                                     *)
(***************************************************************************)
noteVars   == <<npc, noteInput, noteOutput, noteSecond>>
signalVars == <<sigData, sigIndex, sigReason, cards>>
legacyVars == <<legSource, legRecommended, legIndex, legReason, legCompl>>
apiVars    == <<tPayload, tResult, response, respOk, recommendationData, shown>>

NoCard == [similarityScore |-> Undefined, reason |-> NoReason]
CardSlots == {"A", "B"}

NotesOff ==
  /\ npc = "off" /\ noteInput = JsNull /\ noteOutput = JsNull /\ noteSecond = JsNull

SignalOff ==
  /\ sigData = NoData /\ sigIndex = 0 /\ sigReason = NoReason
  /\ cards = [s \in CardSlots |-> NoCard]

NoPerfume == Perfume(<<>>, Absent, Absent, Absent, Absent)
NoLegacyReason == Reason("none", NaN, <<>>, <<>>)
ArgumentOrders == {"source,recommended", "recommended,source"}

LegacyOff ==
  /\ legSource = NoPerfume /\ legRecommended = NoPerfume /\ legIndex = 0
  /\ legReason = NoLegacyReason
  /\ legCompl = [o \in ArgumentOrders |-> "not called"]

NotCalled == [t |-> "not called", v |-> <<>>]

ApiOff ==
  /\ tPayload = NullPayload /\ tResult = NotCalled
  /\ response = <<>> /\ respOk = FALSE /\ recommendationData = NotCalled /\ shown = NotCalled

pureVars == <<pureTables, pureArgs, pureReturned>>

\* the tables as the module initialises them
StaticTables ==
  [COMPOUND_NOTES |-> COMPOUND_NOTES, CAPITALIZATION_RULES |-> CAPITALIZATION_RULES]
NoArguments ==
  [note |-> JsNull, notes |-> JsNull, data |-> NoData, index |-> 0,
   sourcePerfume |-> NoPerfume, recommendedPerfume |-> NoPerfume]

PureOff ==
  /\ pureTables = StaticTables
  /\ pureArgs = NoArguments
  /\ pureReturned = [c \in Callers |-> [f \in PureFunctions |-> NotCalled]]

coreVars == <<noteVars, signalVars, legacyVars, apiVars>>
CoreOff == NotesOff /\ SignalOff /\ LegacyOff /\ ApiOff

searchVars == <<searchQuery, selectedCategory, selectedPerfume, debouncedQuery, lastRequest>>

Null == "null"
NoRequest == [endpoint |-> "none", argument |-> <<>>]

\* PerfumeApp not mounted
SearchOff ==
  /\ searchQuery = <<>> /\ selectedCategory = <<"a", "l", "l">> /\ selectedPerfume = Null
  /\ debouncedQuery = <<>> /\ lastRequest = NoRequest

feedbackVars == <<storage, hooks, ledger>>

NotMounted == [mounted |-> FALSE, feedback |-> EmptyFeedback]

\* no useFeedback instance mounted, nothing stored
FeedbackOff ==
  /\ storage = Optional(FALSE, EmptyFeedback)
  /\ hooks = [i \in Instances |-> NotMounted]
  /\ ledger = EmptyFeedback

authVars == <<user, isLoading, error, tokenStore, inFlight>>

\* AuthProvider not mounted: its useState defaults, nothing stored
AuthOff ==
  /\ user = Null /\ isLoading = TRUE /\ error = Null
  /\ tokenStore = NoTokens
  /\ inFlight = [op \in AuthOperations |-> FALSE]

cacheVars == <<now, imageCache, fetching, signedUrl>>

NoResult == [key |-> "", url |-> NoUrl, from |-> "none", at |-> 0]

\* the module has just been loaded: new ImageUrlCache()
CacheOff ==
  /\ now = 0
  /\ imageCache = [k \in CacheKeys |-> NoEntry]
  /\ fetching = [k \in CacheKeys |-> 0]
  /\ signedUrl = NoResult

uiVars == <<pureVars, searchVars, feedbackVars, authVars, cacheVars>>
UiOff == PureOff /\ SearchOff /\ FeedbackOff /\ AuthOff /\ CacheOff

outsidePure     == <<coreVars, searchVars, feedbackVars, authVars, cacheVars>>
outsideSearch   == <<coreVars, pureVars, feedbackVars, authVars, cacheVars>>
outsideFeedback == <<coreVars, pureVars, authVars, cacheVars>>
outsideAuth     == <<coreVars, pureVars, searchVars, feedbackVars, cacheVars>>
outsideCache    == <<coreVars, pureVars, searchVars, feedbackVars, authVars>>

(***************************************************************************)
(* The note normaliser as a state machine: one call, then a second pass    *)
(***************************************************************************)
NotesInit ==
  /\ npc = "start"
  /\ noteInput \in ParseInputs \cup FormatNoteInputs
  /\ noteOutput = JsNull
  /\ noteSecond = JsNull
  /\ SignalOff /\ LegacyOff /\ ApiOff /\ UiOff

\* transformPerfume: parseNotes(props.top_notes)
ParseNotes ==
  /\ npc = "start"
  /\ noteInput \in ParseInputs
  /\ noteOutput' = parseNotes(noteInput)
  /\ npc' = "parsed"
  /\ UNCHANGED <<noteInput, noteSecond, signalVars, legacyVars, apiVars, uiVars>>

\* the normaliser applied to its own output
ParseNotesAgain ==
  /\ npc = "parsed"
  /\ noteOutput # TypeError
  /\ noteSecond' = parseNotes(noteOutput)
  /\ npc' = "reparsed"
  /\ UNCHANGED <<noteInput, noteOutput, signalVars, legacyVars, apiVars, uiVars>>

\* a direct call of formatNotes
FormatNotes ==
  /\ npc = "start"
  /\ noteInput \in ParseInputs
  /\ noteOutput' = formatNotes(noteInput)
  /\ npc' = "formattedAll"
  /\ UNCHANGED <<noteInput, noteSecond, signalVars, legacyVars, apiVars, uiVars>>

\* a direct call of formatNote
FormatNote ==
  /\ npc = "start"
  /\ noteInput \in FormatNoteInputs
  /\ noteOutput' = formatNote(noteInput)
  /\ npc' = "formatted"
  /\ UNCHANGED <<noteInput, noteSecond, signalVars, legacyVars, apiVars, uiVars>>

\* formatNote applied to its own output
FormatNoteAgain ==
  /\ npc = "formatted"
  /\ noteOutput # TypeError
  /\ noteSecond' = formatNote(noteOutput)
  /\ npc' = "reformatted"
  /\ UNCHANGED <<noteInput, noteOutput, signalVars, legacyVars, apiVars, uiVars>>

NotesNext ==
  \/ ParseNotes
  \/ ParseNotesAgain
  \/ FormatNotes
  \/ FormatNote
  \/ FormatNoteAgain

SpecNotes == NotesInit /\ [][NotesNext]_vars

(***************************************************************************)
(* The signal explainer as a state machine: one call on one item           *)
(***************************************************************************)
SignalInit ==
  /\ sigData \in SignalData
  /\ sigIndex \in 0..MaxIndex
  /\ sigReason = NoReason
  /\ cards = [s \in CardSlots |-> NoCard]
  /\ NotesOff /\ LegacyOff /\ ApiOff /\ UiOff

GenerateRecommendationReasonFromData ==
  /\ sigReason = NoReason
  /\ sigReason' = generateRecommendationReasonFromData(sigData, sigIndex)
  /\ UNCHANGED <<sigData, sigIndex, cards, noteVars, legacyVars, apiVars, uiVars>>

SignalNext == GenerateRecommendationReasonFromData

SpecSignal == SignalInit /\ [][SignalNext]_vars

(***************************************************************************)
(* PerfumeDetail: the reasons of two candidates, each explained once       *)
(***************************************************************************)
PairInit == NotesOff /\ SignalOff /\ LegacyOff /\ ApiOff /\ UiOff

\* recommendationData.map((recData, index) => ... reason ...), for one item
ExplainCandidate(slot, recData, index) ==
  /\ cards[slot] = NoCard
  /\ cards' = [cards EXCEPT ![slot] =
                 [similarityScore |-> recData.similarityScore,
                  reason |-> generateRecommendationReasonFromData(recData, index)]]
  /\ UNCHANGED <<sigData, sigIndex, sigReason, noteVars, legacyVars, apiVars, uiVars>>

PairNext ==
  \E slot \in CardSlots, recData \in SignalData, index \in 0..MaxIndex :
    ExplainCandidate(slot, recData, index)

SpecPair == PairInit /\ [][PairNext]_vars

(***************************************************************************)
(* The legacy explainer as a state machine: one call on one pair           *)
(***************************************************************************)
LegacyInit ==
  /\ legSource \in Perfumes
  /\ legRecommended \in Perfumes
  /\ legIndex = 0
  /\ legReason = NoLegacyReason
  /\ legCompl = [o \in ArgumentOrders |-> "not called"]
  /\ NotesOff /\ SignalOff /\ ApiOff /\ UiOff

GenerateRecommendationReason(index) ==
  /\ legReason = NoLegacyReason
  /\ legIndex' = index
  /\ legReason' = generateRecommendationReason(legSource, legRecommended, index)
  /\ UNCHANGED <<legSource, legRecommended, legCompl, noteVars, signalVars, apiVars, uiVars>>

LegacyNext == \E index \in 0..MaxIndex : GenerateRecommendationReason(index)

SpecLegacy == LegacyInit /\ [][LegacyNext]_vars

\* areComplementaryProfiles, called with the pair in either argument order
AreComplementaryProfiles(order) ==
  /\ legCompl[order] = "not called"
  /\ legCompl' = [legCompl EXCEPT ![order] =
       IF (IF order = "source,recommended"
             THEN areComplementaryProfiles(legSource, legRecommended)
             ELSE areComplementaryProfiles(legRecommended, legSource))
         THEN "true" ELSE "false"]
  /\ UNCHANGED <<legSource, legRecommended, legIndex, legReason, noteVars, signalVars, apiVars, uiVars>>

ComplementaryNext == \E order \in ArgumentOrders : AreComplementaryProfiles(order)

SpecComplementary == LegacyInit /\ [][ComplementaryNext]_vars

(***************************************************************************)
(* Both explainers: a call of the signal explainer on one item or a call   *)
(* of the legacy explainer on one pair                                     *)
(***************************************************************************)
ExplainersInit == SignalInit \/ LegacyInit

ExplainersNext == SignalNext \/ LegacyNext

SpecExplainers == ExplainersInit /\ [][ExplainersNext]_vars

(***************************************************************************)
(* transformPerfume as a state machine: one call on one payload            *)
(***************************************************************************)
TransformInit ==
  /\ tPayload \in Payloads
  /\ tResult = NotCalled
  /\ response = <<>> /\ respOk = FALSE /\ recommendationData = NotCalled /\ shown = NotCalled
  /\ NotesOff /\ SignalOff /\ LegacyOff /\ UiOff

TransformPerfume ==
  /\ tResult = NotCalled
  /\ tResult' = transformPerfume(tPayload)
  /\ UNCHANGED <<tPayload, response, respOk, recommendationData, shown, noteVars, signalVars, legacyVars, uiVars>>

TransformNext == TransformPerfume

SpecTransform == TransformInit /\ [][TransformNext]_vars

(***************************************************************************)
(* The recommendation pipeline: the fetch resolves, PerfumeDetail renders  *)
(***************************************************************************)
PipelineInit ==
  /\ response \in Responses
  /\ respOk \in BOOLEAN
  /\ recommendationData = NotCalled
  /\ shown = NotCalled
  /\ tPayload = NullPayload /\ tResult = NotCalled
  /\ NotesOff /\ SignalOff /\ LegacyOff /\ UiOff

GetSimilarPerfumesWithData ==
  /\ recommendationData = NotCalled
  /\ recommendationData' =
       [t |-> "resolved", v |-> getSimilarPerfumesWithData(respOk, response)]
  /\ UNCHANGED <<response, respOk, shown, tPayload, tResult, noteVars, signalVars, legacyVars, uiVars>>

RenderRecommendations ==
  /\ recommendationData # NotCalled
  /\ shown = NotCalled
  /\ shown' = [t |-> "rendered", v |-> renderReasons(recommendationData.v)]
  /\ UNCHANGED <<response, respOk, recommendationData, tPayload, tResult,
                 noteVars, signalVars, legacyVars, uiVars>>

PipelineNext ==
  \/ GetSimilarPerfumesWithData
  \/ RenderRecommendations

SpecPipeline == PipelineInit /\ [][PipelineNext]_vars

(***************************************************************************)
(* The pure components called by several callers in any order.  JavaScript *)
(* runs each synchronous call to completion, so a call is one step.        *)
(***************************************************************************)
PureInit ==
  /\ pureTables = StaticTables
  /\ pureArgs \in Arguments
  /\ pureReturned = [c \in Callers |-> [f \in PureFunctions |-> NotCalled]]
  /\ CoreOff /\ SearchOff /\ FeedbackOff /\ AuthOff /\ CacheOff

Returned(value) == [t |-> "returned", v |-> value]

\* what a call leaves behind: the caller has its result, nothing else is
\* assigned
Return(c, f, value) ==
  /\ pureReturned[c][f] = NotCalled
  /\ pureReturned' = [pureReturned EXCEPT ![c][f] = Returned(value)]

CallFormatNote(c) ==
  /\ Return(c, "formatNote", formatNote(pureArgs.note))
  /\ UNCHANGED <<pureTables, pureArgs, outsidePure>>

CallFormatNotes_InPlace(c) ==
  /\ Return(c, "formatNotes", formatNotes(pureArgs.notes))
  /\ pureArgs' = [pureArgs EXCEPT !.notes = formatNotes(pureArgs.notes)]
  /\ UNCHANGED <<pureTables, outsidePure>>

CallFormatNotes(c) ==
  /\ Return(c, "formatNotes", formatNotes(pureArgs.notes))
  /\ UNCHANGED <<pureTables, pureArgs, outsidePure>>

CallIsCompoundNote(c) ==
  /\ Return(c, "isCompoundNote", isCompoundNote(pureArgs.note))
  /\ UNCHANGED <<pureTables, pureArgs, outsidePure>>

CallGenerateRecommendationReasonFromData(c) ==
  /\ Return(c, "generateRecommendationReasonFromData",
            generateRecommendationReasonFromData(pureArgs.data, pureArgs.index))
  /\ UNCHANGED <<pureTables, pureArgs, outsidePure>>

CallGenerateRecommendationReason(c) ==
  /\ Return(c, "generateRecommendationReason",
            generateRecommendationReason(pureArgs.sourcePerfume,
                                         pureArgs.recommendedPerfume, pureArgs.index))
  /\ UNCHANGED <<pureTables, pureArgs, outsidePure>>

PureNext ==
  \E c \in Callers :
    \/ CallFormatNote(c)
    \/ CallFormatNotes(c)
    \/ CallIsCompoundNote(c)
    \/ CallGenerateRecommendationReasonFromData(c)
    \/ CallGenerateRecommendationReason(c)

SpecPure == PureInit /\ [][PureNext]_vars

(***************************************************************************)
(* The search page: PerfumeApp with its SearchAutocomplete                 *)
(***************************************************************************)
SearchInit ==
  /\ searchQuery = <<>>
  /\ selectedCategory = <<"a", "l", "l">>
  /\ selectedPerfume = Null
  /\ debouncedQuery = <<>>
  /\ lastRequest = NoRequest
  /\ CoreOff /\ PureOff /\ FeedbackOff /\ AuthOff /\ CacheOff

\* SearchAutocomplete.handleInputChange: onChange(e.target.value)
HandleInputChange(value) ==
  /\ selectedPerfume = Null
  /\ searchQuery' = value
  /\ UNCHANGED <<selectedCategory, selectedPerfume, debouncedQuery, lastRequest, outsideSearch>>

\* useDebounce: the timer fires, setDebouncedValue(value)
DebounceFires ==
  /\ selectedPerfume = Null
  /\ debouncedQuery # searchQuery
  /\ debouncedQuery' = searchQuery
  /\ UNCHANGED <<searchQuery, selectedCategory, selectedPerfume, lastRequest, outsideSearch>>

\* the autocomplete query, enabled when debouncedQuery.length >= 2
AutocompleteQuery ==
  /\ selectedPerfume = Null
  /\ Len(debouncedQuery) >= 2
  /\ lastRequest' = Request("searchPerfumes", debouncedQuery)
  /\ UNCHANGED <<searchQuery, selectedCategory, selectedPerfume, debouncedQuery, outsideSearch>>

\* the perfumes query of PerfumeApp runs for the current key
PerfumesQuery ==
  /\ lastRequest' = perfumesQueryFn(searchQuery, selectedCategory)
  /\ UNCHANGED <<searchQuery, selectedCategory, selectedPerfume, debouncedQuery, outsideSearch>>

HandleCategoryChange(category) ==
  /\ selectedPerfume = Null
  /\ IF validateCategory(category)
       THEN selectedCategory' = category /\ searchQuery' = <<>>
       ELSE UNCHANGED <<selectedCategory, searchQuery>>
  /\ UNCHANGED <<selectedPerfume, debouncedQuery, lastRequest, outsideSearch>>

\* the "Show All Perfumes" button of the empty state
ShowAllPerfumes ==
  /\ selectedPerfume = Null
  /\ searchQuery # <<>> \/ selectedCategory # <<"a", "l", "l">>
  /\ searchQuery' = <<>>
  /\ selectedCategory' = <<"a", "l", "l">>
  /\ UNCHANGED <<selectedPerfume, debouncedQuery, lastRequest, outsideSearch>>

\* SearchAutocomplete.handleSelectPerfume: onSelect(perfume), onChange('')
HandleSelectPerfume(id) ==
  /\ selectedPerfume = Null
  /\ lastRequest = Request("searchPerfumes", debouncedQuery)
  /\ selectedPerfume' = id
  /\ searchQuery' = <<>>
  /\ UNCHANGED <<selectedCategory, debouncedQuery, lastRequest, outsideSearch>>

\* handleBack: the search page is rendered again and SearchAutocomplete
\* mounts with useState(value) as its debounced copy
HandleBack ==
  /\ selectedPerfume # Null
  /\ selectedPerfume' = Null
  /\ debouncedQuery' = searchQuery
  /\ UNCHANGED <<searchQuery, selectedCategory, lastRequest, outsideSearch>>

SearchNext ==
  \/ \E value \in TypedTexts : HandleInputChange(value)
  \/ DebounceFires
  \/ AutocompleteQuery
  \/ PerfumesQuery
  \/ \E category \in CategoryInputs : HandleCategoryChange(category)
  \/ ShowAllPerfumes
  \/ \E id \in PerfumeIds : HandleSelectPerfume(id)
  \/ HandleBack

SpecSearch == SearchInit /\ [][SearchNext]_vars

(***************************************************************************)
(* useFeedback in the app: PerfumeApp and PreferenceInsights on the list   *)
(* view, one RecommendationCard per recommendation on the detail view.     *)
(* Every instance loads its copy when it mounts and saves the whole copy   *)
(* in the effect that follows each change of it.                           *)
(***************************************************************************)
Mounted(stored) == [mounted |-> TRUE, feedback |-> loadFeedback(stored)]

\* PerfumeApp and PreferenceInsights mount; their effects save what they loaded
FeedbackInit ==
  /\ \E stored \in InitialStorage :
       /\ hooks = [i \in Instances |->
                     IF i \in {"PerfumeApp", "PreferenceInsights"}
                       THEN Mounted(stored) ELSE NotMounted]
       /\ storage = saveFeedback(loadFeedback(stored))
       /\ ledger = loadFeedback(stored)
  /\ SearchOff /\ CoreOff /\ PureOff /\ AuthOff /\ CacheOff

\* the cards of the detail view of a perfume: its recommendations
CardsOf(id) == PerfumeIds \ {id}

\* PerfumeCard.onClick: handlePerfumeSelect(perfume).  The list view
\* unmounts, the detail view's cards mount, load and save.
SelectPerfumeCard(id) ==
  /\ selectedPerfume = Null
  /\ selectedPerfume' = id
  /\ hooks' = [i \in Instances |->
                 IF i = "PerfumeApp" THEN hooks[i]
                 ELSE IF i \in CardsOf(id) THEN Mounted(storage)
                 ELSE NotMounted]
  /\ storage' = saveFeedback(loadFeedback(storage))
  /\ UNCHANGED <<ledger, searchQuery, selectedCategory, debouncedQuery, lastRequest,
                 outsideFeedback>>

\* RecommendationCard.onPress: handlePerfumeSelect(perfume).  The cards of
\* the new perfume mount; a card shown for both perfumes is kept (keep)
\* when the new recommendations are cached, else it mounts anew.
PressRecommendationCard(id, keep) ==
  /\ selectedPerfume # Null
  /\ id \in CardsOf(selectedPerfume)
  /\ selectedPerfume' = id
  /\ hooks' = [i \in Instances |->
                 IF i = "PerfumeApp" THEN hooks[i]
                 ELSE IF i \in CardsOf(id)
                   THEN (IF keep /\ hooks[i].mounted THEN hooks[i] ELSE Mounted(storage))
                 ELSE NotMounted]
  /\ UNCHANGED <<storage, ledger, searchQuery, selectedCategory, debouncedQuery,
                 lastRequest, outsideFeedback>>

\* handleBack: the list view mounts again, PreferenceInsights loads and saves
BackFromDetail ==
  /\ selectedPerfume # Null
  /\ selectedPerfume' = Null
  /\ hooks' = [i \in Instances |->
                 IF i = "PerfumeApp" THEN hooks[i]
                 ELSE IF i = "PreferenceInsights" THEN Mounted(storage)
                 ELSE NotMounted]
  /\ UNCHANGED <<storage, ledger, searchQuery, selectedCategory, debouncedQuery,
                 lastRequest, outsideFeedback>>

\* setFeedback(update) in instance i, then the effect: saveFeedback(feedback)
SetFeedback(i, next) ==
  /\ hooks[i].mounted
  /\ hooks' = [hooks EXCEPT ![i].feedback = next]
  /\ storage' = saveFeedback(next)

ToggleLove(i, perfumeId) ==
  /\ SetFeedback(i, toggleLove(hooks[i].feedback, perfumeId))
  /\ ledger' = toggleLove(ledger, perfumeId)
  /\ UNCHANGED <<searchVars, outsideFeedback>>

ToggleReject(i, perfumeId) ==
  /\ SetFeedback(i, toggleReject(hooks[i].feedback, perfumeId))
  /\ ledger' = toggleReject(ledger, perfumeId)
  /\ UNCHANGED <<searchVars, outsideFeedback>>

ClearFeedback(i) ==
  /\ SetFeedback(i, clearFeedback)
  /\ ledger' = clearFeedback
  /\ UNCHANGED <<searchVars, outsideFeedback>>

\* RecommendationCard.handleLoveClick / handleRejectClick of the card of a perfume
HandleLoveClick(card) == ToggleLove(card, card)
HandleRejectClick(card) == ToggleReject(card, card)

FeedbackNext ==
  \/ \E id \in PerfumeIds : SelectPerfumeCard(id)
  \/ \E id \in PerfumeIds, keep \in BOOLEAN : PressRecommendationCard(id, keep)
  \/ BackFromDetail
  \/ \E card \in PerfumeIds : HandleLoveClick(card)
  \/ \E card \in PerfumeIds : HandleRejectClick(card)

SpecFeedback == FeedbackInit /\ [][FeedbackNext]_vars

(***************************************************************************)
(* One instance of the hook, starting from nothing stored, called through  *)
(* everything it returns                                                   *)
(***************************************************************************)
HookInit ==
  /\ hooks = [i \in Instances |->
                IF i = "PerfumeApp" THEN Mounted(Optional(FALSE, EmptyFeedback))
                ELSE NotMounted]
  /\ storage = saveFeedback(EmptyFeedback)
  /\ ledger = EmptyFeedback
  /\ SearchOff /\ CoreOff /\ PureOff /\ AuthOff /\ CacheOff

HookNext ==
  \/ \E id \in HookIds : ToggleLove("PerfumeApp", id)
  \/ \E id \in HookIds : ToggleReject("PerfumeApp", id)
  \/ ClearFeedback("PerfumeApp")

SpecHook == HookInit /\ [][HookNext]_vars

(***************************************************************************)
(* AuthProvider.  An asynchronous operation is two steps: the call up to   *)
(* its await, and the continuation once the backend has answered.  The     *)
(* sign-in and sign-up forms disable their submit button while isLoading;  *)
(* logout is not held back by anything.                                    *)
(***************************************************************************)
\* the provider has mounted and initAuth has run up to its await
AuthInit ==
  /\ tokenStore \in StoredTokens
  /\ user = Null
  /\ error = Null
  /\ IF getAccessToken(tokenStore) # Null
       THEN /\ isLoading = TRUE
            /\ inFlight = [op \in AuthOperations |-> op = "initAuth"]
       ELSE /\ isLoading = FALSE
            /\ inFlight = [op \in AuthOperations |-> FALSE]
  /\ CoreOff /\ PureOff /\ SearchOff /\ FeedbackOff /\ CacheOff

\* initAuth after await authApi.getCurrentUser(): the answer is the user
\* (ok) or an error
InitAuthResumes(ok, currentUser) ==
  /\ inFlight["initAuth"]
  /\ inFlight' = [inFlight EXCEPT !["initAuth"] = FALSE]
  /\ IF ok THEN user' = currentUser /\ UNCHANGED tokenStore
           ELSE tokenStore' = clearTokens /\ UNCHANGED user
  /\ isLoading' = FALSE
  /\ UNCHANGED <<error, outsideAuth>>

\* login / register up to await authApi.login(credentials)
Submit(op) ==
  /\ ~isLoading
  /\ ~inFlight[op]
  /\ isLoading' = TRUE
  /\ error' = Null
  /\ inFlight' = [inFlight EXCEPT ![op] = TRUE]
  /\ UNCHANGED <<user, tokenStore, outsideAuth>>

\* ... and after it: storeTokens(tokens), setUser(user), or setError(message)
SubmitResumes(op, ok, account, tokens) ==
  /\ inFlight[op]
  /\ inFlight' = [inFlight EXCEPT ![op] = FALSE]
  /\ IF ok THEN /\ tokenStore' = storeTokens(tokenStore, tokens)
                /\ user' = account
                /\ UNCHANGED error
           ELSE /\ error' = op \o " failed"
                /\ UNCHANGED <<user, tokenStore>>
  /\ isLoading' = FALSE
  /\ UNCHANGED outsideAuth

Login == Submit("login")
LoginResumes(ok, account, tokens) == SubmitResumes("login", ok, account, tokens)
Register == Submit("register")
RegisterResumes(ok, account, tokens) == SubmitResumes("register", ok, account, tokens)

\* logout when authApi.logout finds a token: up to the await of its fetch
Logout ==
  /\ ~inFlight["logout"]
  /\ getAccessToken(tokenStore) # Null
  /\ isLoading' = TRUE
  /\ error' = Null
  /\ inFlight' = [inFlight EXCEPT !["logout"] = TRUE]
  /\ UNCHANGED <<user, tokenStore, outsideAuth>>

\* logout when authApi.logout finds no token and returns at once
LogoutWithoutToken ==
  /\ ~inFlight["logout"]
  /\ getAccessToken(tokenStore) = Null
  /\ user' = Null
  /\ tokenStore' = clearTokens
  /\ error' = Null
  /\ isLoading' = FALSE
  /\ UNCHANGED <<inFlight, outsideAuth>>

\* ... and after the fetch (answered or failed): clearTokens() in
\* authApi.logout, then setUser(null), clearTokens()
LogoutResumes ==
  /\ inFlight["logout"]
  /\ inFlight' = [inFlight EXCEPT !["logout"] = FALSE]
  /\ user' = Null
  /\ tokenStore' = clearTokens
  /\ isLoading' = FALSE
  /\ UNCHANGED <<error, outsideAuth>>

AuthNext ==
  \/ \E ok \in BOOLEAN, u \in Users : InitAuthResumes(ok, u)
  \/ Login
  \/ \E ok \in BOOLEAN, u \in Users : \E t \in IssuedTokens(u) : LoginResumes(ok, u, t)
  \/ Register
  \/ \E ok \in BOOLEAN, u \in Users : \E t \in IssuedTokens(u) : RegisterResumes(ok, u, t)
  \/ Logout
  \/ LogoutWithoutToken
  \/ LogoutResumes

SpecAuth == AuthInit /\ [][AuthNext]_vars

(***************************************************************************)
(* perfumeApi.getImageSignedUrl with the module's ImageUrlCache            *)
(***************************************************************************)
CacheInit ==
  /\ now = 0
  /\ imageCache = [k \in CacheKeys |-> NoEntry]
  /\ fetching = [k \in CacheKeys |-> 0]
  /\ signedUrl = NoResult
  /\ CoreOff /\ PureOff /\ SearchOff /\ FeedbackOff /\ AuthOff

Result(key, url, from) == [key |-> key, url |-> url, from |-> from, at |-> now]

\* getImageSignedUrl up to its await: a cache hit returns, a miss sends the
\* request
GetImageSignedUrl(imgId, extension) ==
  LET key == cacheKey(imgId, extension)
      got == cacheGet(imageCache, key, now)
  IN /\ imageCache' = got.cache
     /\ IF got.hit
          THEN /\ signedUrl' = Result(key, got.url, "cache")
               /\ UNCHANGED fetching
          ELSE /\ fetching[key] < MaxFetching
               /\ fetching' = [fetching EXCEPT ![key] = @ + 1]
               /\ UNCHANGED signedUrl
     /\ UNCHANGED <<now, outsideCache>>

\* ... and after it: only an answer with status 'success' and a URL is stored
FetchResumes(key, outcome) ==
  /\ fetching[key] > 0
  /\ fetching' = [fetching EXCEPT ![key] = @ - 1]
  /\ IF outcome = "success"
       THEN /\ imageCache' = cacheSet(imageCache, key, Url(key, now), now)
            /\ signedUrl' = Result(key, Url(key, now), "network")
       ELSE /\ UNCHANGED imageCache
            /\ signedUrl' = Result(key, NoUrl, "empty")
  /\ UNCHANGED <<now, outsideCache>>

\* time passes
Tick ==
  /\ now < MaxTicks * TickMinutes
  /\ now' = now + TickMinutes
  /\ UNCHANGED <<imageCache, fetching, signedUrl, outsideCache>>

CacheNext ==
  \/ \E c \in ImageCalls : GetImageSignedUrl(c[1], c[2])
  \/ \E k \in CacheKeys, outcome \in Outcomes : FetchResumes(k, outcome)
  \/ Tick

SpecCache == CacheInit /\ [][CacheNext]_vars

(***************************************************************************)
(* Claims about the note normaliser                                        *)
(***************************************************************************)
\* the normalised form of a note text: lower-cased, trimmed, every run of
\* white space collapsed to one blank
NormalizedText(s) == join(splitWhiteSpace(trim(toLowerCase(s)), <<>>), <<" ">>)

\* C1: the list parseNotes returns holds no two elements whose normalised
\* forms (lower-cased, trimmed, white space collapsed) are equal.
C1_NoEqualNormalizedForms ==
  (npc = "parsed" /\ noteOutput.t = "array") =>
    \A i, j \in 1..Len(noteOutput.v) :
      i # j => NormalizedText(noteOutput.v[i].v) # NormalizedText(noteOutput.v[j].v)

\* C2: the normaliser is idempotent: a second pass over its own output
\* returns that output unchanged (same elements, order and capitalisation).
C2_Idempotent ==
  npc = "reparsed" => noteSecond = noteOutput

\* an input the normaliser documents as malformed: null or undefined, a
\* value that is neither string nor array, an array with a non-string element
Malformed(x) ==
  \/ x.t \notin {"string", "array"}
  \/ x.t = "array" /\ \E i \in 1..Len(x.v) : x.v[i].t # "string"

\* C3: formatNote, formatNotes and parseNotes never raise on malformed
\* input (null, undefined, wrong type, array with a null or non-string
\* element).
C3_NeverRaises ==
  (npc \in {"parsed", "formattedAll", "formatted"} /\ Malformed(noteInput)) =>
    noteOutput # TypeError

\* C4: for every raw note whose normalised text is a key of the
\* capitalisation table, in any case and white-space variant, formatNote
\* returns the table's display string verbatim.
C4_OverrideVerbatim ==
  (npc = "formatted" /\ noteInput.t = "string"
     /\ HasRule(NormalizedText(noteInput.v))) =>
    noteOutput = JsString(Rule(NormalizedText(noteInput.v)))

\* the comma-separated segments of a notes string that are not empty once
\* trimmed, in order
KeptSegments(s) ==
  SelectSeq([i \in 1..Len(splitChar(s, ",", <<>>)) |-> trim(splitChar(s, ",", <<>>)[i])],
            LAMBDA n : n # <<>>)

\* C18: a comma-joined notes string is split at commas only, never at white
\* space: every segment that is not empty after trimming gives at most one
\* output note, a segment with embedded blanks stays one note (every output
\* note is a whole segment and every kept segment is an output note, by
\* normalised text), empty segments are dropped, and 'Pink Pepper, Bergamot'
\* gives ['Pink Pepper', 'Bergamot'].
C18_SplitOnlyAtCommas ==
  (npc = "parsed" /\ noteInput.t = "string") =>
    LET kept == KeptSegments(noteInput.v)
    IN /\ noteOutput.t = "array"
       /\ Len(noteOutput.v) <= Len(kept)
       /\ \A i \in 1..Len(noteOutput.v) :
            /\ noteOutput.v[i].v # <<>>
            /\ \E k \in 1..Len(kept) :
                 NormalizedText(noteOutput.v[i].v) = NormalizedText(kept[k])
       /\ \A k \in 1..Len(kept) :
            \E i \in 1..Len(noteOutput.v) :
              NormalizedText(noteOutput.v[i].v) = NormalizedText(kept[k])
       /\ noteInput.v = <<"P", "i", "n", "k", " ", "P", "e", "p", "p", "e", "r", ",", " ", "B", "e", "r", "g", "a", "m", "o", "t">> =>
            noteOutput = JsArray(<<JsString(<<"P", "i", "n", "k", " ", "P", "e", "p", "p", "e", "r">>), JsString(<<"B", "e", "r", "g", "a", "m", "o", "t">>)>>)

C18_Witness ==
  /\ npc = "parsed"
  /\ noteInput = JsString(<<"p", "i", "n", "k", " ", "p", "e", "p", "p", "e", "r", ",", ",", "b", "e", "r", "g", "a", "m", "o", "t", " ", ",", " ">>)
  /\ noteOutput = JsArray(<<JsString(<<"P", "i", "n", "k", " ", "P", "e", "p", "p", "e", "r">>), JsString(<<"B", "e", "r", "g", "a", "m", "o", "t">>)>>)

\* the notes of a list that are first occurrences of their normalised text
\* (and not blank), in input order
RECURSIVE FirstOccurrences(_, _)
FirstOccurrences(notes, i) ==
  IF i > Len(notes) THEN <<>>
  ELSE IF \/ NormalizedText(notes[i].v) = <<>>
          \/ \E j \in 1..(i - 1) :
               NormalizedText(notes[j].v) = NormalizedText(notes[i].v)
    THEN FirstOccurrences(notes, i + 1)
    ELSE <<NormalizedText(notes[i].v)>> \o FirstOccurrences(notes, i + 1)

\* C19: the normaliser keeps the first occurrence of each normalised note
\* and preserves input order: the output is the sequence of the formatted
\* input notes with every later duplicate removed.
C19_FirstOccurrenceKept ==
  (npc = "formattedAll" /\ noteInput.t = "array"
     /\ \A i \in 1..Len(noteInput.v) : noteInput.v[i].t = "string") =>
    /\ noteOutput.t = "array"
    /\ [i \in 1..Len(noteOutput.v) |-> NormalizedText(noteOutput.v[i].v)]
         = FirstOccurrences(noteInput.v, 1)

\* the default title case of a normalised text: a character is upper-cased
\* when it starts the text or follows a blank
TitleCase(t) ==
  [i \in 1..Len(t) |->
     IF i = 1 \/ t[i - 1] = " " THEN toUpperCaseChar(t[i]) ELSE toLowerCaseChar(t[i])]

\* C20: for every non-empty raw note whose normalised text is not a key of
\* the capitalisation table, formatNote returns the default title case: the
\* normalised words joined by single blanks, each with its first character
\* in upper case and the rest in lower case ('amber musk' gives 'Amber Musk').
C20_DefaultTitleCase ==
  (npc = "formatted" /\ noteInput.t = "string" /\ noteInput.v # <<>>
     /\ ~HasRule(NormalizedText(noteInput.v))) =>
    noteOutput = JsString(TitleCase(NormalizedText(noteInput.v)))

C20_Witness ==
  /\ npc = "formatted"
  /\ noteInput = JsString(<<" ", "A", "M", "B", "E", "R", "\t", "M", "U", "S", "K", " ">>)
  /\ noteOutput = JsString(<<"A", "m", "b", "e", "r", " ", "M", "u", "s", "k">>)

\* an empty or absent input: null, undefined, the empty string, the empty array
EmptyInput(x) ==
  x \in {JsNull, JsUndefined, JsString(<<>>), JsArray(<<>>)}

\* C21: the note parser (parseNotes, formatNotes) returns the empty list
\* without raising for null, undefined, the empty string and the empty
\* array, and formatNote returns the empty string for empty or absent input.
C21_EmptyInputSafe ==
  /\ (npc \in {"parsed", "formattedAll"} /\ EmptyInput(noteInput)) =>
       noteOutput = JsArray(<<>>)
  /\ (npc = "formatted" /\ noteInput \in {JsNull, JsUndefined, JsString(<<>>)}) =>
       noteOutput = JsString(<<>>)

C21_Witness ==
  /\ npc = "parsed"
  /\ noteInput = JsUndefined
  /\ noteOutput = JsArray(<<>>)

(***************************************************************************)
(* Claims about the signal explainer                                       *)
(***************************************************************************)
\* C5: first match wins: whenever sharedNotes > 6 the result is similar_notes
\* with confidence min(0.95, similarityScore/3) and matchingElements
\* ['<n> shared notes'], whatever the family scores, the score and the index.
C5_SharedNotesRuleWins ==
  (sigReason # NoReason /\ sigData.sharedNotes.k = "number"
     /\ sigData.sharedNotes.n > 6 * sigData.sharedNotes.d
     /\ sigData.similarityScore.k = "number") =>
    /\ sigReason.type = "similar_notes"
    /\ sigReason.confidence =
         (IF Lt(Div(sigData.similarityScore, 3), Num(95, 100))
            THEN Div(sigData.similarityScore, 3) ELSE Num(95, 100))
    /\ sigReason.matchingElements
         = << ToString(sigData.sharedNotes.n) \o " shared notes" >>

\* C5 witness: the spec's example, sharedNotes = 8, similarityScore = 1.0 and
\* WOODY = 10, explained as similar_notes with confidence 1/3
C5_Witness ==
  /\ sigData.sharedNotes = Num(8, 1)
  /\ sigData.similarityScore = Num(1, 1)
  /\ sigData.olfactiveProfile = [present |-> TRUE, entries |-> << <<"WOODY", Num(10, 1)>> >>]
  /\ sigReason.type = "similar_notes"
  /\ sigReason.confidence = Num(1, 3)

\* the position of the rule that produced a reason of the signal explainer
RuleOf(reason) ==
  CASE reason.type = "similar_notes"  -> 1
    [] reason.type = "similar_family" -> 2
    [] reason.type = "complementary"  -> 3
    [] reason.type = "popular_choice" -> 4
    [] OTHER -> 0

BothExplained == cards["A"] # NoCard /\ cards["B"] # NoCard

\* C6 (as stated): if candidate A is matched by an earlier rule than
\* candidate B, A's confidence is not lower than B's.
C6_PrecedenceOrdersConfidence ==
  (BothExplained /\ RuleOf(cards["A"].reason) < RuleOf(cards["B"].reason)) =>
    ~Lt(cards["A"].reason.confidence, cards["B"].reason.confidence)

\* C6 (amended): if candidate A is matched by an earlier rule than candidate
\* B and A's similarityScore is at least 2.7, A's confidence is not lower
\* than B's.
C6_PrecedenceOrdersConfidenceAtCap ==
  (BothExplained /\ RuleOf(cards["A"].reason) < RuleOf(cards["B"].reason)
     /\ cards["A"].similarityScore.k = "number"
     /\ ~Lt(cards["A"].similarityScore, Num(27, 10))) =>
    ~Lt(cards["A"].reason.confidence, cards["B"].reason.confidence)

\* C6 witness: A explained by the shared-notes rule with a score of 2.7, B by
\* the popular-choice fallback at index 0
C6_Witness ==
  /\ cards["A"].similarityScore = Num(27, 10)
  /\ cards["A"].reason.type = "similar_notes"
  /\ cards["A"].reason.confidence = Num(9, 10)
  /\ cards["B"].reason.type = "popular_choice"
  /\ cards["B"].reason.confidence = Num(8, 10)

\* a confidence is a number in [0,1]
IsConfidence(c) == c.k = "number" /\ ~Lt(c, Num(0, 1)) /\ ~Lt(Num(1, 1), c)

\* the item with every absent field replaced by zero / the empty profile
ZeroFilled(data) ==
  [similarityScore |->
     IF data.similarityScore = Undefined THEN Num(0, 1) ELSE data.similarityScore,
   sharedNotes |->
     IF data.sharedNotes = Undefined THEN Num(0, 1) ELSE data.sharedNotes,
   olfactiveProfile |->
     IF data.olfactiveProfile.present THEN data.olfactiveProfile
     ELSE [present |-> TRUE, entries |-> <<>>]]

\* C7: when olfactiveProfile, sharedNotes or similarityScore is absent, the
\* explainer returns the reason it would return with the absent field zero or
\* empty, and the confidence is a number in [0,1].
C7_AbsentAsZero ==
  (sigReason # NoReason
     /\ (\/ sigData.similarityScore = Undefined
         \/ sigData.sharedNotes = Undefined
         \/ ~sigData.olfactiveProfile.present)) =>
    /\ sigReason = generateRecommendationReasonFromData(ZeroFilled(sigData), sigIndex)
    /\ IsConfidence(sigReason.confidence)

\* the families in the order the contract lists them
FixedOrder == << "FLORAL", "WOODY", "ORIENTAL", "FRESH", "FRUITY", "GOURMAND" >>

\* the numeric scores of a profile and the highest of them (0 when none)
NumericScores(profile) ==
  { profile.entries[i][2] : i \in { j \in 1..Len(profile.entries) :
                                      profile.entries[j][2].k = "number" } }
HighestScore(profile) ==
  IF NumericScores(profile) = {} THEN Num(0, 1)
  ELSE CHOOSE s \in NumericScores(profile) : \A t \in NumericScores(profile) : ~Lt(s, t)

\* the families of a profile that hold its highest score
TopFamilies(profile) ==
  { profile.entries[i][1] : i \in { j \in 1..Len(profile.entries) :
                                      profile.entries[j][2] = HighestScore(profile) } }

\* rule 1 does not match, rule 2 does
FamilyRuleApplies ==
  /\ sigReason # NoReason
  /\ ~Gt(sigData.sharedNotes, Num(6, 1))
  /\ Gt(HighestScore(sigData.olfactiveProfile), Num(4, 1))

\* C13: when several families share the maximum score, the dominant family
\* is the tied family that comes first in the order FLORAL, WOODY, ORIENTAL,
\* FRESH, FRUITY, GOURMAND, whatever the order of the profile's keys.
C13_TieBrokenByFixedOrder ==
  FamilyRuleApplies =>
    LET top   == TopFamilies(sigData.olfactiveProfile)
        first == CHOOSE i \in 1..Len(FixedOrder) :
                   /\ FixedOrder[i] \in top
                   /\ \A j \in 1..(i - 1) : FixedOrder[j] \notin top
    IN sigReason.matchingElements = << FixedOrder[first] >>

\* no rule matches
NoRuleMatches ==
  /\ sigReason # NoReason
  /\ ~Gt(sigData.sharedNotes, Num(6, 1))
  /\ ~Gt(HighestScore(sigData.olfactiveProfile), Num(4, 1))
  /\ ~Gt(sigData.similarityScore, Num(25, 10))

\* C14: when no rule matches, the result is popular_choice with confidence
\* max(0.6, 0.8 - 0.1 index) and no matching elements; over the indices the
\* confidence is non-increasing and never below 0.6.
C14_FallbackDecay ==
  NoRuleMatches =>
    LET decayed == Minus(Num(8, 10), Num(sigIndex, 10))
    IN /\ sigReason.type = "popular_choice"
       /\ sigReason.confidence = (IF Lt(decayed, Num(6, 10)) THEN Num(6, 10) ELSE decayed)
       /\ sigReason.matchingElements = <<>>
       /\ ~Lt(sigReason.confidence, Num(6, 10))
       /\ \A later \in sigIndex..MaxIndex :
            ~Lt(sigReason.confidence,
                generateRecommendationReasonFromData(sigData, later).confidence)

\* C14 witness: the fallback at index 3, floored at 0.6
C14_Witness ==
  /\ NoRuleMatches /\ sigIndex = 3
  /\ sigReason.type = "popular_choice"
  /\ sigReason.confidence = Num(6, 10)

\* C15: when sharedNotes <= 6 and the highest family score is above 4, the
\* result is similar_family with confidence min(0.9, similarityScore/3) and
\* the dominant family as the one matching element; a highest score of
\* exactly 4 does not trigger the rule.
C15_FamilyRule ==
  /\ (FamilyRuleApplies /\ sigData.similarityScore.k = "number") =>
       /\ sigReason.type = "similar_family"
       /\ sigReason.confidence =
            (IF Lt(Div(sigData.similarityScore, 3), Num(9, 10))
               THEN Div(sigData.similarityScore, 3) ELSE Num(9, 10))
       /\ Len(sigReason.matchingElements) = 1
       /\ sigReason.matchingElements[1] \in TopFamilies(sigData.olfactiveProfile)
  /\ (sigReason # NoReason /\ ~Gt(sigData.sharedNotes, Num(6, 1))
        /\ HighestScore(sigData.olfactiveProfile) = Num(4, 1)) =>
       sigReason.type # "similar_family"

\* C15 witness: sharedNotes = 6, FLORAL = 5 and similarityScore = 3 give
\* similar_family at the cap 0.9
C15_Witness ==
  /\ sigData.sharedNotes = Num(6, 1)
  /\ sigData.similarityScore = Num(3, 1)
  /\ sigData.olfactiveProfile = [present |-> TRUE, entries |-> << <<"FLORAL", Num(5, 1)>> >>]
  /\ sigReason.type = "similar_family"
  /\ sigReason.confidence = Num(9, 10)
  /\ sigReason.matchingElements = << "FLORAL" >>

\* rules 1 and 2 do not match
NeitherNotesNorFamily ==
  /\ sigReason # NoReason
  /\ ~Gt(sigData.sharedNotes, Num(6, 1))
  /\ ~Gt(HighestScore(sigData.olfactiveProfile), Num(4, 1))

\* C16: when rules 1 and 2 do not match and similarityScore is above 2.5,
\* the result is complementary with confidence min(0.85, similarityScore/3)
\* and one matching element naming the score to one decimal place; a score
\* of exactly 2.5 falls through to popular_choice.
C16_SimilarityRule ==
  /\ (NeitherNotesNorFamily /\ Gt(sigData.similarityScore, Num(25, 10))) =>
       /\ sigReason.type = "complementary"
       /\ sigReason.confidence =
            (IF Lt(Div(sigData.similarityScore, 3), Num(85, 100))
               THEN Div(sigData.similarityScore, 3) ELSE Num(85, 100))
       /\ sigReason.matchingElements = << toFixed1(sigData.similarityScore) \o " similarity" >>
  /\ (NeitherNotesNorFamily /\ sigData.similarityScore = Num(25, 10)) =>
       sigReason.type = "popular_choice"

\* C16 witness: similarityScore = 2.85 with no other signal gives
\* complementary, confidence 0.85, "2.9 similarity"
C16_Witness ==
  /\ NeitherNotesNorFamily
  /\ sigData.similarityScore = Num(285, 100)
  /\ sigReason.type = "complementary"
  /\ sigReason.confidence = Num(85, 100)
  /\ sigReason.matchingElements = << "2.9 similarity" >>

(***************************************************************************)
(* Claims about the legacy explainer                                       *)
(***************************************************************************)
SameBrand == toLowerCase(legSource.brand) = toLowerCase(legRecommended.brand)
SharedCount == Len(commonNotes(legSource, legRecommended))

\* C8: the legacy explainer selects by maximum confidence: the returned
\* reason is one that matched and no matched reason has a higher confidence;
\* same brand with 2 shared notes returns same_brand, same brand with 3 or
\* more shared notes returns similar_notes.
C8_MaxConfidenceWins ==
  legReason # NoLegacyReason =>
    LET reasons == legacyReasons(legSource, legRecommended, legIndex)
    IN /\ \E i \in 1..Len(reasons) : legReason = reasons[i]
       /\ \A i \in 1..Len(reasons) : ~Lt(legReason.confidence, reasons[i].confidence)
       /\ (SameBrand /\ SharedCount = 2) => legReason.type = "same_brand"
       /\ (SameBrand /\ SharedCount >= 3) => legReason.type = "similar_notes"

\* C8 witness: same brand and three shared notes, explained as similar_notes
\* with confidence 0.9 although same_brand (0.85) matched first
C8_Witness ==
  /\ SameBrand /\ SharedCount = 3
  /\ legReason.type = "similar_notes"
  /\ legReason.confidence = Num(9, 10)

\* the distinct normalised notes of a perfume, and those two perfumes share
Vocabulary(perfume) ==
  LET notes == extractAllNotes(perfume)
  IN { normalizeNote(notes[i]) : i \in 1..Len(notes) }
Intersection == Vocabulary(legSource) \cap Vocabulary(legRecommended)

\* C9: when the perfumes share a note, the similar_notes reason has
\* confidence min(0.95, 0.6 + 0.1 k), k the number of distinct normalised
\* notes present in both perfumes.
C9_ConfidenceCountsDistinctNotes ==
  (legReason # NoLegacyReason /\ Intersection # {}) =>
    LET reasons == legacyReasons(legSource, legRecommended, legIndex)
        k == Cardinality(Intersection)
    IN \E i \in 1..Len(reasons) :
         /\ reasons[i].type = "similar_notes"
         /\ reasons[i].confidence
              = MathMin(Num(95, 100), Plus(Num(6, 10), Times(k, Num(1, 10))))

\* one perfume has a note with one keyword of a pair, the other perfume a
\* note with the opposite keyword
OppositeSides(perfume1, perfume2) ==
  \E p \in 1..Len(complementaryPairs) :
    \/ /\ someIncludes(extractAllNotes(perfume1), complementaryPairs[p][1])
       /\ someIncludes(extractAllNotes(perfume2), complementaryPairs[p][2])
    \/ /\ someIncludes(extractAllNotes(perfume1), complementaryPairs[p][2])
       /\ someIncludes(extractAllNotes(perfume2), complementaryPairs[p][1])

\* C10: the complementary-profiles test is true whenever the two perfumes
\* hold opposite sides of a pair, whichever of them is the source, and
\* swapping source and recommended perfume never changes the answer.
C10_ComplementarySymmetric ==
  /\ \A o \in ArgumentOrders :
       (legCompl[o] # "not called" /\ OppositeSides(legSource, legRecommended))
         => legCompl[o] = "true"
  /\ (\A o \in ArgumentOrders : legCompl[o] # "not called")
       => legCompl["source,recommended"] = legCompl["recommended,source"]

(***************************************************************************)
(* Claims about both explainers                                            *)
(***************************************************************************)
ReasonTypes ==
  { "similar_notes", "same_brand", "similar_family", "popular_choice", "complementary" }

NonNegative(x) == x.k = "number" /\ ~Lt(x, Num(0, 1))

\* an item with every signal present and non-negative
WellFormedSignal(data) ==
  /\ NonNegative(data.similarityScore)
  /\ NonNegative(data.sharedNotes)
  /\ data.olfactiveProfile.present
  /\ \A i \in 1..Len(data.olfactiveProfile.entries) :
       NonNegative(data.olfactiveProfile.entries[i][2])

\* a pair of perfumes that both name their brand
WellFormedPair == legSource.brand # <<>> /\ legRecommended.brand # <<>>

\* C17: for well-formed input each call of either explainer returns one
\* reason whose type is one of the five reason types and whose confidence
\* lies in [0,1].
C17_OneReasonInRange ==
  /\ (sigReason # NoReason /\ WellFormedSignal(sigData) /\ sigIndex >= 0) =>
       /\ sigReason.type \in ReasonTypes
       /\ IsConfidence(sigReason.confidence)
  /\ (legReason # NoLegacyReason /\ WellFormedPair /\ legIndex >= 0) =>
       /\ legReason.type \in ReasonTypes
       /\ IsConfidence(legReason.confidence)

\* C17 witness: a well-formed item with sharedNotes = 7 and similarityScore
\* = 4, explained as similar_notes at the cap 0.95
C17_Witness ==
  /\ WellFormedSignal(sigData)
  /\ sigData.sharedNotes = Num(7, 1) /\ sigData.similarityScore = Num(4, 1)
  /\ sigReason.type = "similar_notes"
  /\ sigReason.confidence = Num(95, 100)

\* none of the three legacy rules matched the pair
NoneMatched ==
  /\ ~SameBrand
  /\ SharedCount = 0
  /\ ~areComplementaryProfiles(legSource, legRecommended)

C11_BothShapesNormalized ==
  (tResult # NotCalled /\ tPayload.t # "null") =>
    LET props == tPayload.props
    IN /\ tResult.notes.present
       /\ tResult.notes.v =
            IF props.notes.present
              THEN [top |-> formatNotes(props.notes.v.top),
                    middle |-> formatNotes(props.notes.v.middle),
                    base |-> formatNotes(props.notes.v.base)]
              ELSE [top |-> parseNotes(props.top_notes),
                    middle |-> parseNotes(props.middle_notes),
                    base |-> parseNotes(props.base_notes)]

\* the signals an item carries next to perfume, and those inside perfume
AtTopLevel(item) == Signals(item.similarityScore, item.sharedNotes, item.olfactiveProfile)
InsidePerfume(item) ==
  Signals(item.perfume.similarityScore, item.perfume.sharedNotes,
          item.perfume.olfactiveProfile)
Min(a, b) == IF a < b THEN a ELSE b

\* C12 (as stated): for response items carrying similarityScore, sharedNotes
\* and olfactiveProfile at the top level, next to perfume, the pipeline
\* computes each reason from those values, with the item's zero-based
\* position as index.
C12_ReasonFromTopLevelSignals ==
  (shown # NotCalled /\ respOk) =>
    /\ Len(shown.v) = Min(SliceLimit, Len(response))
    /\ \A i \in 1..Len(shown.v) :
         AtTopLevel(response[i]) # NoSignals =>
           shown.v[i] = generateRecommendationReasonFromData(AtTopLevel(response[i]), i - 1)

\* C12 (amended): for response items carrying similarityScore, sharedNotes
\* and olfactiveProfile inside item.perfume, the pipeline computes each
\* reason from those values, with the item's zero-based position as index;
\* the values next to perfume are not read.
C12_ReasonFromPerfumeSignals ==
  (shown # NotCalled /\ respOk) =>
    /\ Len(shown.v) = Min(SliceLimit, Len(response))
    /\ \A i \in 1..Len(shown.v) :
         shown.v[i] = generateRecommendationReasonFromData(InsidePerfume(response[i]), i - 1)

\* C12 witness: the second item carries sharedNotes = 8 inside perfume and
\* is explained as similar_notes; the third carries no signals and gets the
\* fallback of index 2
C12_Witness ==
  /\ respOk /\ shown # NotCalled /\ Len(response) > SliceLimit /\ Len(shown.v) = SliceLimit
  /\ InsidePerfume(response[2]) = StrongNotes /\ AtTopLevel(response[2]) = NoSignals
  /\ shown.v[2].type = "similar_notes"
  /\ InsidePerfume(response[3]) = NoSignals
  /\ shown.v[3].type = "popular_choice" /\ shown.v[3].confidence = Num(6, 10)

(***************************************************************************)
(* Claims about the purity of the core components                          *)
(***************************************************************************)
\* two calls of one function on the same arguments returned the same value
EqualResults ==
  \A c1, c2 \in Callers : \A f \in PureFunctions :
    (pureReturned[c1][f].t = "returned" /\ pureReturned[c2][f].t = "returned") =>
      pureReturned[c1][f].v = pureReturned[c2][f].v

C24_SearchQueryValidated ==
  lastRequest.endpoint = "searchPerfumes" =>
    /\ Len(lastRequest.argument) <= MaxQueryLength
    /\ \A i \in 1..Len(lastRequest.argument) :
         lastRequest.argument[i] \notin FilteredCharacters

\* C25: selectedCategory is always one of all, floral, woody, fresh,
\* oriental, fruity, gourmand; handleCategoryChange with any other string
\* leaves selectedCategory and searchQuery unchanged, and with one of these
\* sets the category and clears searchQuery.
Whitelisted(category) ==
  \E i \in 1..Len(validCategories) : validCategories[i] = category

Elements(list) == { list[i] : i \in 1..Len(list) }

\* C26: with several mounted useFeedback instances that each save their
\* whole copy to the one localStorage key, no toggle is lost: after any
\* interleaving of toggleLove / toggleReject calls made through different
\* instances, the stored feedback holds the effect of every toggle.
C26_NoToggleLost ==
  /\ storage.present
  /\ Elements(storage.v.loved) = Elements(ledger.loved)
  /\ Elements(storage.v.rejected) = Elements(ledger.rejected)

\* no id in both lists, no id twice in a list
WellFormed(feedback) ==
  /\ Elements(feedback.loved) \cap Elements(feedback.rejected) = {}
  /\ Cardinality(Elements(feedback.loved)) = Len(feedback.loved)
  /\ Cardinality(Elements(feedback.rejected)) = Len(feedback.rejected)

\* C27: within one useFeedback instance that starts from empty feedback,
\* after any sequence of toggleLove, toggleReject and clearFeedback no id is
\* in both loved and rejected and no id is twice in a list; toggleLove(id) on
\* a rejected id moves it to loved and toggleReject(id) on a loved id moves
\* it to rejected.
C27_LovedRejectedDisjoint ==
  /\ [](\A i \in Instances : WellFormed(hooks[i].feedback))
  /\ [][\A id \in HookIds :
          LET before == hooks["PerfumeApp"].feedback
              after  == hooks["PerfumeApp"].feedback'
          IN /\ (ToggleLove("PerfumeApp", id) /\ listIncludes(before.rejected, id)) =>
                  (listIncludes(after.loved, id) /\ ~listIncludes(after.rejected, id))
             /\ (ToggleReject("PerfumeApp", id) /\ listIncludes(before.loved, id)) =>
                  (listIncludes(after.rejected, id) /\ ~listIncludes(after.loved, id))]_vars

\* C27 witness: the instance holds two loved ids and one rejected id
C27_Witness ==
  /\ hooks["PerfumeApp"].feedback = FeedbackData(<<"p2", "p3">>, <<"p1">>)
  /\ ledger = hooks["PerfumeApp"].feedback

\* the grid of the list view
Grid == sortedPerfumes(ListedPerfumes, hooks["PerfumeApp"].feedback)

\* C28: rejected perfumes are filtered out of the list: once toggleReject(id)
\* was performed on a RecommendationCard, the grid shown after the user goes
\* back does not contain id, and it contains id again once the rejection is
\* toggled off.
C28_RejectedFilteredFromGrid ==
  selectedPerfume = Null =>
    \A id \in PerfumeIds :
      listIncludes(Grid, id) <=> ~listIncludes(ledger.rejected, id)

(***************************************************************************)
(* Claims about the AuthProvider                                           *)
(***************************************************************************)
Idle == \A op \in AuthOperations : ~inFlight[op]

\* C29: after any interleaving of initAuth, login, register and logout,
\* whenever user is non-null and no operation is in flight an access token
\* is stored (a session restore that fails after a login succeeded does not
\* clear the tokens of the user signed in), and once logout completes user
\* is null and both tokens are removed.
C29_AuthenticatedHasToken ==
  /\ []((user # Null /\ Idle) => getAccessToken(tokenStore) # Null)
  /\ [][(LogoutResumes \/ LogoutWithoutToken) =>
          (user' = Null /\ tokenStore' = NoTokens)]_vars

(***************************************************************************)
(* Claims about the image URL cache                                        *)
(***************************************************************************)
\* C30: every URL getImageSignedUrl returns from the cache was stored under
\* the same key by a successful signed-URL response less than 50 minutes
\* earlier: an expired entry is never returned (the lookup removes it), and
\* a failed, non-success or timed-out request stores nothing, so the next
\* call for that key sends a new request.
C30_CacheReturnsFreshUrl ==
  /\ [](signedUrl.from = "cache" =>
          /\ signedUrl.url.key = signedUrl.key
          /\ signedUrl.url.issued <= signedUrl.at
          /\ signedUrl.at - signedUrl.url.issued < 50)
  /\ [][\A c \in ImageCalls :
          LET key == cacheKey(c[1], c[2])
              stale == \/ ~imageCache[key].present
                       \/ now - imageCache[key].url.issued >= 50
          IN /\ (GetImageSignedUrl(c[1], c[2]) /\ stale) =>
                  /\ ~imageCache'[key].present
                  /\ fetching'[key] = fetching[key] + 1
                  /\ signedUrl' = signedUrl
             /\ \A outcome \in Outcomes \ {"success"} :
                  FetchResumes(key, outcome) =>
                    (imageCache' = imageCache /\ signedUrl'.url = NoUrl)]_vars

\* C30 witness: a URL issued 25 minutes ago is returned from the cache
C30_Witness ==
  /\ signedUrl.from = "cache"
  /\ signedUrl.key = "img7.jpg"
  /\ signedUrl.at - signedUrl.url.issued = 25
====
